---- MODULE Spec2Model ----
(***************************************************************************)
(* Exposure scoring and multi-criteria route selection engine.             *)
(*                                                                         *)
(* Numbers.  The program computes in IEEE-754 doubles; the model computes  *)
(* in exact integer arithmetic on fixed-point inputs:                      *)
(*   pm25, co        concentration in 1/100 of the native unit             *)
(*   pm10            concentration in 1/10 ug/m3                           *)
(*   o3, no2, so2    concentration in 1/10000 ppm (for no2 and so2 this is *)
(*                   1/10 ppb after the code's multiplication by 1000)     *)
(* Python's int() truncates toward zero: PyInt(n, d) below.                  *)
(***************************************************************************)
EXTENDS Integers, Sequences, FiniteSets, TLC

\* Python's None (an absent or null field, a result not yet computed): a value
\* outside every range the model computes in.
None == -1000000

Abs(x) == IF x < 0 THEN -x ELSE x

\* int(n / d) for d > 0: truncation toward zero.
PyInt(n, d) == IF n >= 0 THEN n \div d ELSE -((-n) \div d)

\* int(il + (c - cl) * span / (cu - cl)), the shape of every band formula.
Lin(il, c, cl, span, cu) == PyInt(il * (cu - cl) + (c - cl) * span, cu - cl)

(***************************************************************************)
(* Grid points where the double-precision value of the band expression     *)
(* falls one ulp below an exact integer, so that int() returns the integer *)
(* below the exact quotient (e.g. 51 + (4.6-4.5)*49/(9.4-4.5) evaluates to *)
(* 51.99999999999999, and (50/35)*4.9 to 6.999999999999999).               *)
(***************************************************************************)
UlpBelow ==
    { <<"co", 460>>, <<"co", 820>>, <<"co", 870>>, <<"co", 920>>,
      <<"so2", 49>>, <<"so2", 98>>, <<"so2", 196>>, <<"so2", 203>>,
      <<"so2", -49>>, <<"so2", -98>>, <<"so2", -196>>, <<"so2", -203>> }

\* A double-precision shortfall that costs two index units instead of one.
FloatInt_two_below(p, c, exact) ==
    IF <<p, c>> \in UlpBelow
    THEN (IF exact > 0 THEN exact - 2 ELSE exact + 2)
    ELSE exact

FloatInt(p, c, exact) ==
    IF <<p, c>> \in UlpBelow
    THEN (IF exact > 0 THEN exact - 1 ELSE exact + 1)
    ELSE exact

(***************************************************************************)
(* Sub-index functions of backend/adapters/air/openaq_grid_provider.py     *)
(***************************************************************************)
\* Mutant: the second band interpolates from 12.0 instead of 12.1.
aqi_from_pm25_from_12(c) ==
    IF c <= 1200 THEN PyInt(50 * c, 1200)
    ELSE IF c <= 3540 THEN Lin(50, c, 1200, 50, 3540)
    ELSE IF c <= 5540 THEN Lin(100, c, 3550, 50, 5540)
    ELSE IF c <= 15040 THEN Lin(150, c, 5550, 50, 15040)
    ELSE IF c <= 25040 THEN Lin(200, c, 15050, 100, 25040)
    ELSE 301

aqi_from_pm25(c) ==
    IF c <= 1200 THEN PyInt(50 * c, 1200)
    ELSE IF c <= 3540 THEN Lin(50, c, 1210, 50, 3540)
    ELSE IF c <= 5540 THEN Lin(100, c, 3550, 50, 5540)
    ELSE IF c <= 15040 THEN Lin(150, c, 5550, 50, 15040)
    ELSE IF c <= 25040 THEN Lin(200, c, 15050, 100, 25040)
    ELSE 301

aqi_from_o3(c) ==
    IF c <= 540 THEN PyInt(50 * c, 540)
    ELSE IF c <= 700 THEN Lin(51, c, 550, 49, 700)
    ELSE IF c <= 850 THEN Lin(101, c, 710, 49, 850)
    ELSE IF c <= 1050 THEN Lin(151, c, 860, 49, 1050)
    ELSE IF c <= 2000 THEN Lin(201, c, 1060, 99, 2000)
    ELSE 301

\* c is no2_ppm in 1/10000 ppm, i.e. no2_ppb = no2_ppm * 1000 in 1/10 ppb.
aqi_from_no2(c) ==
    IF c <= 530 THEN PyInt(50 * c, 530)
    ELSE IF c <= 1000 THEN Lin(51, c, 540, 49, 1000)
    ELSE IF c <= 3600 THEN Lin(101, c, 1010, 49, 3600)
    ELSE IF c <= 6490 THEN Lin(151, c, 3610, 49, 6490)
    ELSE IF c <= 12490 THEN Lin(201, c, 6500, 99, 12490)
    ELSE 301

\* Mutant: the second band starts at index 50 instead of 51.
aqi_from_pm10_from_50(c) ==
    IF c <= 540 THEN PyInt(50 * c, 540)
    ELSE IF c <= 1540 THEN Lin(50, c, 550, 50, 1540)
    ELSE IF c <= 2540 THEN Lin(101, c, 1550, 49, 2540)
    ELSE IF c <= 3540 THEN Lin(151, c, 2550, 49, 3540)
    ELSE IF c <= 4240 THEN Lin(201, c, 3550, 99, 4240)
    ELSE 301

aqi_from_pm10(c) ==
    IF c <= 540 THEN PyInt(50 * c, 540)
    ELSE IF c <= 1540 THEN Lin(51, c, 550, 49, 1540)
    ELSE IF c <= 2540 THEN Lin(101, c, 1550, 49, 2540)
    ELSE IF c <= 3540 THEN Lin(151, c, 2550, 49, 3540)
    ELSE IF c <= 4240 THEN Lin(201, c, 3550, 99, 4240)
    ELSE 301

aqi_from_co(c) ==
    IF c <= 440 THEN PyInt(50 * c, 440)
    ELSE IF c <= 940 THEN FloatInt("co", c, Lin(51, c, 450, 49, 940))
    ELSE IF c <= 1240 THEN Lin(101, c, 950, 49, 1240)
    ELSE IF c <= 1540 THEN Lin(151, c, 1250, 49, 1540)
    ELSE IF c <= 3040 THEN Lin(201, c, 1550, 99, 3040)
    ELSE 301

\* Mutant: the highest band excludes its upper bound (< instead of <=).
aqi_from_so2_strict_top(c) ==
    IF c <= 350 THEN FloatInt("so2", c, PyInt(50 * c, 350))
    ELSE IF c <= 750 THEN Lin(51, c, 360, 49, 750)
    ELSE IF c <= 1850 THEN Lin(101, c, 760, 49, 1850)
    ELSE IF c <= 3040 THEN Lin(151, c, 1860, 49, 3040)
    ELSE IF c < 6040 THEN Lin(201, c, 3050, 99, 6040)
    ELSE 301

\* c is so2_ppm in 1/10000 ppm, i.e. so2_ppb in 1/10 ppb.
aqi_from_so2(c) ==
    IF c <= 350 THEN FloatInt("so2", c, PyInt(50 * c, 350))
    ELSE IF c <= 750 THEN Lin(51, c, 360, 49, 750)
    ELSE IF c <= 1850 THEN Lin(101, c, 760, 49, 1850)
    ELSE IF c <= 3040 THEN Lin(151, c, 1860, 49, 3040)
    ELSE IF c <= 6040 THEN Lin(201, c, 3050, 99, 6040)
    ELSE 301

\* backend/adapters/air/waqi_forecast_provider.py (if / elif chain)
waqi_aqi_from_pm25(c) ==
    IF c <= 1200 THEN PyInt(50 * c, 1200)
    ELSE IF c <= 3540 THEN Lin(50, c, 1210, 50, 3540)
    ELSE IF c <= 5540 THEN Lin(100, c, 3550, 50, 5540)
    ELSE IF c <= 15040 THEN Lin(150, c, 5550, 50, 15040)
    ELSE IF c <= 25040 THEN Lin(200, c, 15050, 100, 25040)
    ELSE 301

\* backend-api/src/adapters/air/openaq_grid_provider.py
api_aqi_from_pm25(c) ==
    IF c <= 1200 THEN PyInt(50 * c, 1200)
    ELSE IF c <= 3540 THEN Lin(50, c, 1210, 50, 3540)
    ELSE IF c <= 5540 THEN Lin(100, c, 3550, 50, 5540)
    ELSE IF c <= 15040 THEN Lin(150, c, 5550, 50, 15040)
    ELSE IF c <= 25040 THEN Lin(200, c, 15050, 100, 25040)
    ELSE 301

Pollutants == <<"pm25", "pm10", "o3", "no2", "co", "so2">>
PollutantSet == {Pollutants[i] : i \in 1..Len(Pollutants)}

\* The sub-index function _aqi_from_pollutants calls for pollutant p.
SubIndex(p, c) ==
    CASE p = "pm25" -> aqi_from_pm25(c)
      [] p = "pm10" -> aqi_from_pm10(c)
      [] p = "o3"   -> aqi_from_o3(c)
      [] p = "no2"  -> aqi_from_no2(c)
      [] p = "co"   -> aqi_from_co(c)
      [] p = "so2"  -> aqi_from_so2(c)

RECURSIVE SeqMax(_)
SeqMax(s) ==
    IF Len(s) = 1 THEN s[1]
    ELSE LET m == SeqMax(Tail(s)) IN IF s[1] >= m THEN s[1] ELSE m

RECURSIVE SubsFrom(_, _)
\* subs, in the order the six "if values.get(p) is not None" blocks append.
SubsFrom(values, i) ==
    IF i > Len(Pollutants) THEN << >>
    ELSE LET p == Pollutants[i] IN
         (IF values[p] # None THEN << SubIndex(p, values[p]) >> ELSE << >>)
         \o SubsFrom(values, i + 1)

\* A composite that counts an absent pollutant as concentration zero.
aqi_from_pollutants_zero_fill(values) ==
    SeqMax(SubsFrom([p \in PollutantSet |->
                       IF values[p] # None THEN values[p] ELSE 0], 1))

\* backend: max over the six pollutants present, 0 when none is.
aqi_from_pollutants(values) ==
    LET subs == SubsFrom(values, 1) IN
    IF subs # << >> THEN SeqMax(subs) ELSE 0

\* backend-api: only pm25 is looked at.
api_aqi_from_pollutants(values) ==
    LET subs == IF values["pm25"] # None
                THEN << api_aqi_from_pm25(values["pm25"]) >> ELSE << >> IN
    IF subs # << >> THEN SeqMax(subs) ELSE 0


(***************************************************************************)
(* Fixed-point reals.  A double x is modelled as the pair <<w, f>> with     *)
(* x = w + f / Micro, 0 <= f < Micro (w < 0 for a negative x), cut at the  *)
(* sixth decimal; every product is formed by MulDiv on magnitudes so that  *)
(* no intermediate value leaves the 32-bit range.                          *)
(***************************************************************************)
Micro == 1000000

\* <<q, r>> with a * b = q * d + r and 0 <= r < d, for a, b >= 0 and
\* 0 < d <= 62500000, by long multiplication on the hexadecimal digits of b.
MulDivOf[t \in Nat \X Nat \X Nat] ==
    LET a == t[1]
        b == t[2]
        d == t[3]
    IN IF b = 0 THEN <<0, 0>>
       ELSE LET h == MulDivOf[<<a, b \div 16, d>>]
                r == 16 * h[2] + (b % 16) * (a % d)
            IN << 16 * h[1] + (b % 16) * (a \div d) + (r \div d), r % d >>

\* <<q, r>> with a * b = q * d + r and 0 <= r < d; a divisor above 62500000
\* is a multiple of 16 and is used for quotients below 2^27.
MulDiv(a, b, d) ==
    IF d <= 62500000 THEN MulDivOf[<<a, b, d>>]
    ELSE LET h == MulDivOf[<<a, b, d \div 16>>]
         IN << h[1] \div 16, (h[1] % 16) * (d \div 16) + h[2] >>

\* An addition that loses the carry out of the fraction.
FxAdd_no_carry(x, y) == << x[1] + y[1], (x[2] + y[2]) % Micro >>

\* x + y
FxAdd(x, y) ==
    LET m == x[2] + y[2] IN << x[1] + y[1] + (m \div Micro), m % Micro >>

\* x - y for x >= y.
FxSub(x, y) ==
    LET m == x[2] - y[2] IN
    << x[1] - y[1] - (IF m < 0 THEN 1 ELSE 0), m % Micro >>

\* -x
FxNeg(x) == IF x[2] = 0 THEN << -x[1], 0 >> ELSE << -x[1] - 1, Micro - x[2] >>

\* x * k / d for x >= 0 and integers k >= 0, d > 0.
FxMulDiv(x, k, d) ==
    LET w == MulDiv(x[1], k, d)
        m == MulDiv(w[2], Micro, d)[1] + MulDiv(x[2], k, d)[1]
    IN << w[1] + (m \div Micro), m % Micro >>

FxLess(x, y) == x[1] < y[1] \/ (x[1] = y[1] /\ x[2] < y[2])

\* max(x, y)
FxMax(x, y) == IF FxLess(x, y) THEN y ELSE x

\* round(x, 1): to one decimal, ties to even.
FxRound1(x) ==
    LET t == x[2] \div 100000
        r == x[2] % 100000
        up == r > 50000 \/ (r = 50000 /\ t % 2 = 1)
        t1 == IF up THEN t + 1 ELSE t
    IN IF t1 = 10 THEN << x[1] + 1, 0 >> ELSE << x[1], t1 * 100000 >>

\* int(x)
FxInt(x) == x[1]

\* Newton's iteration for floor(sqrt(n)) from a start x >= floor(sqrt(n)).
IsqrtFrom[t \in Nat \X Nat] ==
    LET n == t[1]
        x == t[2]
        y == (x + (n \div x)) \div 2
    IN IF y >= x THEN x ELSE IsqrtFrom[<<n, y>>]

\* floor(sqrt(n)) for 0 <= n < 2^31 (whose root is at most 46340)
Isqrt(n) ==
    IF n = 0 THEN 0 ELSE IsqrtFrom[<<n, IF n > 46340 THEN 46340 ELSE n>>]

(***************************************************************************)
(* Haversine distance.  Coordinates are integers in microdegrees (what a   *)
(* precision-6 polyline decodes to, times 1e6), within a few hundredths of *)
(* a degree of the equator, where sin(x) = x, asin(x) = x and              *)
(* cos(x) = 1 - x*x/2 hold to within a hundredth of a millimetre of arc.   *)
(***************************************************************************)
\* a = sin(dlat/2)**2 + cos(lat1)*cos(lat2)*sin(dlon/2)**2, in units of
\* (pi / 360e6)**2: dlat^2 + dlon^2 * (1 - (lat1^2 + lat2^2) / 2 rad^2).
hav_a(lat1, lon1, lat2, lon2) ==
    LET dlat == lat2 - lat1
        dlon == lon2 - lon1
        coscos == MulDiv(dlon * dlon, lat1 * lat1 + lat2 * lat2, 1000000000)[1]
                      \div 6565612
    IN dlat * dlat + dlon * dlon - coscos

\* sqrt(a) as a fixed-point number of the same unit (one Newton step from
\* the integer root).
SqrtA(a) ==
    LET s == Isqrt(a) IN
    IF s = 0 THEN <<0, 0>> ELSE << s, MulDiv(a - s * s, Micro, 2 * s)[1] >>

\* 2*R*asin(sqrt(a)) in metres, R = 6371000: one unit of sqrt(a) is
\* R * pi / 180e6 = 0.111194927 m of arc.
ArcOfSine(a) == FxMulDiv(SqrtA(a), 111194927, 1000000000)

\* pi * R in metres, R = 6371000.
PiR == <<20015086, 796021>>

\* DummyRouterClient._haversine_m: 2*R*atan2(sqrt(a), sqrt(1-a)), the arc
\* whose half-angle has sine sqrt(a).
router_haversine_m(lat1, lon1, lat2, lon2) ==
    ArcOfSine(hav_a(lat1, lon1, lat2, lon2))

\* ExposureService._haversine_m: 2*R*atan2(sqrt(1-a), sqrt(a)), the arc whose
\* half-angle has cosine sqrt(a), i.e. pi*R minus the arc above.  For points
\* half a turn of longitude apart 1-a is the small quantity: it is the a of
\* the first point and the antipode of the second, sqrt(1-a) is the sine of
\* the half-angle, and the result is the arc between those two (0 for
\* antipodal points).
exposure_haversine_m(lat1, lon1, lat2, lon2) ==
    IF Abs(lon2 - lon1) > 90000000
    THEN ArcOfSine(hav_a(lat1, lon1, -lat2,
                         IF lon2 > lon1 THEN lon2 - 180000000
                         ELSE lon2 + 180000000))
    ELSE FxSub(PiR, ArcOfSine(hav_a(lat1, lon1, lat2, lon2)))

(***************************************************************************)
(* backend-api/src/application/routes/exposure.py                          *)
(***************************************************************************)
\* km/h, in tenths
MODE_SPEED_KMH == [walk |-> 48, run |-> 90, bike |-> 150]
\* inhalation factor, in tenths
MODE_INHAL == [walk |-> 10, run |-> 12, bike |-> 9]

Modes == DOMAIN MODE_SPEED_KMH

\* round(x) of a non-negative number given in tenths: ties to even.
PyRound(t) ==
    LET q == t \div 10
        r == t % 10
    IN IF r > 5 \/ (r = 5 /\ q % 2 = 1) THEN q + 1 ELSE q

\* A reading without a usable "aqi" scored as moderate air (50).
EnvAqi_default_moderate(env) == IF env.kind = "num" THEN PyRound(env.aqi) ELSE 50

\* int(round(env.get("aqi", 0) or 0)) for what get_aqi_cell returned: the
\* "aqi" field is absent, null, or a number (in tenths).
EnvAqi(env) == IF env.kind = "num" THEN PyRound(env.aqi) ELSE 0

\* Mutant: the duration without its floor of one second.
DurS_no_floor(dist, mode) == FxMulDiv(dist, 36, MODE_SPEED_KMH[mode])

\* dur_s = max(1.0, dist / speed), speed = MODE_SPEED_KMH[mode]*1000/3600
DurS(dist, mode) == FxMax(<<1, 0>>, FxMulDiv(dist, 36, MODE_SPEED_KMH[mode]))

\* seg_exp = aqi * (dur_s/60.0) * MODE_INHAL[mode]
SegExp(aqi, dur_s, mode) ==
    IF aqi >= 0 THEN FxMulDiv(dur_s, aqi * MODE_INHAL[mode], 600)
    ELSE FxNeg(FxMulDiv(dur_s, (-aqi) * MODE_INHAL[mode], 600))

OffCall ==
    [pc |-> "off", pts |-> << >>, mode |-> "walk", i |-> 0,
     exposure |-> <<0, 0>>, max_aqi |-> 0, segs |-> << >>,
     error |-> "none", result |-> << >>]

\* The invocation score_polyline(encoded, mode, depart_at) about to run; pts
\* are the points the geometry decodes to, <<lat, lon>> in microdegrees.
NewCall(pts, mode) ==
    [OffCall EXCEPT !.pc = "called", !.pts = pts, !.mode = mode]

\* The locals of one score_polyline invocation after lines 15-17.
NewFrame(pts, mode) ==
    [pts |-> pts, mode |-> mode, i |-> 0, exposure |-> <<0, 0>>,
     max_aqi |-> 0, segs |-> << >>]

\* A query for the first point of the segment.
Midpoint_first_point(ptA, ptB) == << 2 * ptA[1], 2 * ptA[2] >>

\* latc, lonc = (lat1+lat2)/2, (lon1+lon2)/2, in half microdegrees.
Midpoint(ptA, ptB) == << ptA[1] + ptB[1], ptA[2] + ptB[2] >>

\* Lines 19-28 for the next segment of frame f, env being what get_aqi_cell
\* returned for its midpoint.
FrameStep(f, env) ==
    LET ptA == f.pts[f.i + 1]
        ptB == f.pts[f.i + 2]
        segDist == exposure_haversine_m(ptA[1], ptA[2], ptB[1], ptB[2])
        segDur == DurS(segDist, f.mode)
        segAqi == EnvAqi(env)
        segExp == SegExp(segAqi, segDur, f.mode)
        seg == [from |-> <<ptA[2], ptA[1]>>, to |-> <<ptB[2], ptB[1]>>,
                len_m |-> FxInt(segDist), dur_s |-> FxInt(segDur),
                aqi |-> segAqi, exposure |-> FxRound1(segExp)]
    IN [f EXCEPT !.i = f.i + 1,
                 !.max_aqi = IF segAqi > f.max_aqi THEN segAqi ELSE f.max_aqi,
                 !.exposure = FxAdd(f.exposure, segExp),
                 !.segs = Append(f.segs, seg)]

\* Line 29: return round(exposure,1), max_aqi, segs
FrameResult(f) == << FxRound1(f.exposure), f.max_aqi, f.segs >>

\* No request is being scored by the view.
OffView ==
    [pc |-> "off", routes |-> << >>, mode |-> "none", depart_at |-> 0,
     r |-> 0, frame |-> NewFrame(<< >>, "none"), error |-> "none",
     results |-> << >>, evaluations |-> << >>, queries |-> << >>]

(***************************************************************************)
(* OpenAQGridProvider.get_aqi_cell.  Coordinates are integers in 1/10000   *)
(* degree, times in seconds (UTC); a reading is a function from the        *)
(* pollutants to a concentration in grid units, None, or Text.             *)
(***************************************************************************)
\* A measurement value that is a JSON string instead of a number.
Text == -2000000

\* round(n / d): nearest integer, a half to the even neighbour.
RoundHalfEven(n, d) ==
    LET q == n \div d
        r == n % d
    IN IF 2 * r > d \/ (2 * r = d /\ q % 2 = 1) THEN q + 1 ELSE q

\* _cell_id(lat, lon, res=0.005): the multiples of 0.005 degree the string
\* "{latq:.3f}:{lonq:.3f}" shows, in 1/1000 degree.
cell_id(lat, lon) == << 5 * RoundHalfEven(lat, 50), 5 * RoundHalfEven(lon, 50) >>

\* when.replace(minute=0, second=0, microsecond=0)
HourOf(t) == 3600 * (t \div 3600)

\* key = f"grid:{_cell_id(lat, lon)}:{when.isoformat()}", when being the
\* argument, or the current time if it is None, cut to the hour.
CacheKey(lat, lon, when, now) ==
    << cell_id(lat, lon), HourOf(IF when = None THEN now ELSE when) >>

\* The reading the try block ends with: {} after any failure or when no
\* location is found, the extracted values otherwise.
ExtractedValues(up) ==
    IF up.loc = "ok" /\ up.latest = "ok" THEN up.values ELSE [q \in PollutantSet |-> None]

\* _aqi_from_pollutants compares a value that is not a number: TypeError.
CompositeRaises(impl, values) ==
    IF impl = "backend" THEN \E q \in PollutantSet : values[q] = Text
    ELSE values["pm25"] = Text

\* The payload dictionary of each implementation.
Payload(impl, values) ==
    IF impl = "backend"
    THEN [aqi |-> aqi_from_pollutants(values), pm25 |-> values["pm25"],
          pm10 |-> values["pm10"], o3 |-> values["o3"], no2 |-> values["no2"],
          co |-> values["co"], so2 |-> values["so2"],
          ai |-> None, rain |-> 0, pbl |-> 800, wind |-> <<0, 0>>]
    ELSE [aqi |-> api_aqi_from_pollutants(values), pm25 |-> values["pm25"],
          o3 |-> values["o3"], no2 |-> values["no2"],
          ai |-> None, rain |-> 0, pbl |-> 800, wind |-> <<0, 0>>]

\* cache.get found nothing; no payload was returned.
NoPayload == [aqi |-> None]

\* cache.get(key): the value stored under the key and not yet expired.
CacheGet(entries, key, now) ==
    LET live == {e \in entries : e.key = key /\ e.expires > now}
    IN IF live = {} THEN NoPayload ELSE (CHOOSE e \in live : TRUE).payload

\* cache.set(key, payload, timeout=ttl)
CacheSet(entries, key, payload, now, ttl) ==
    {e \in entries : e.key # key}
        \cup {[key |-> key, payload |-> payload, expires |-> now + ttl]}

\* A thread that has not called get_aqi_cell yet.
NoCall ==
    [pc |-> "none", key |-> << >>, bucket |-> << >>, priors |-> {},
     hit |-> FALSE, failed |-> FALSE, requests |-> 0, payload |-> NoPayload]

\* No provider exists.
OffProv ==
    [impl |-> "none", ttl |-> 0, now |-> 0, cache |-> {}, stored |-> {},
     calls |-> << >>]

\* No concurrent invocations exist.
OffPar == [grid |-> << >>, calls |-> << >>]

\* A helper not yet called.
NoDist == << >>

DistOf(a, b) ==
    [a |-> a, b |-> b,
     router |-> [ab |-> NoDist, ba |-> NoDist],
     exposure |-> [ab |-> NoDist, ba |-> NoDist]]

OffDist == DistOf(<<0, 0>>, <<0, 0>>)

\* A route request: routes are the routes the routing service has for it,
\* each with what score_polyline returns for it (distance in metres,
\* exposure_index in tenths); router is the client handed to
\* ComputeRouteUseCase ("osrm": OSRMClient, "list": a client that returns the
\* list as it is); alpha and beta in tenths; aqi_threshold None when not
\* supplied.
Request(router, routes, alpha, beta, aqi_threshold) ==
    [router |-> router, routes |-> routes, alpha |-> alpha, beta |-> beta,
     aqi_threshold |-> aqi_threshold,
     view_pc |-> "start", view_error |-> "none", evaluations |-> << >>,
     span_dist |-> 0, span_exp |-> 0, optimal |-> << >>,
     handle_pc |-> "start", handle_error |-> "none", scored |-> << >>,
     best |-> << >>]

OffSel == [Request("osrm", << >>, 0, 0, None) EXCEPT !.view_pc = "off",
                                                     !.handle_pc = "off"]

(***************************************************************************)
(* State.                                                                  *)
(*   values     the PollutantReading handed to the calculator              *)
(*   subs       sub-index per pollutant that _aqi_from_pollutants appended *)
(*   final_aqi  result of backend _aqi_from_pollutants                     *)
(*   api_aqi    result of backend-api _aqi_from_pollutants                 *)
(*   waqi_aqi   result of the WAQI provider's _aqi_from_pm25               *)
(*   call       the invocation of ExposureService.score_polyline: its      *)
(*              arguments, its locals (i: segments done, exposure,         *)
(*              max_aqi, segs), its position pc and what it returned       *)
(*   grid_calls the get_aqi_cell calls made so far, in order               *)
(*   dist       two points and what each _haversine_m helper returned for  *)
(*              them, in either argument order                             *)
(*   sel        one route request: the routes the router returned with     *)
(*              their scoring, the weights, and what OptimalRouteView.get  *)
(*              and ComputeRouteUseCase.handle computed from them          *)
(***************************************************************************)
(***************************************************************************)
(* Polyline codec at precision 6 (the polyline package the router client   *)
(* and the exposure service call).  An input coordinate is an integer in   *)
(* 1/10 of a microdegree; an encoded text is the sequence of its character *)
(* codes; a decoded coordinate is an integer in microdegrees.              *)
(***************************************************************************)
\* round(coordinate * 10^6): nearest microdegree, a half away from zero.
Round6(c) == IF c >= 0 THEN (c + 5) \div 10 ELSE -(((-c) + 5) \div 10)

\* The signed delta shifted left by one, bit-inverted when negative.
ZigZag(d) == IF d >= 0 THEN 2 * d ELSE (-2) * d - 1

UnZigZag(r) == IF r % 2 = 1 THEN -(r \div 2) - 1 ELSE r \div 2

\* 5-bit groups, least significant first, each but the last flagged with
\* 0x20, emitted as characters with base offset 63.
Chunks[v \in Nat] ==
    IF v >= 32 THEN << 32 + (v % 32) + 63 >> \o Chunks[v \div 32]
    ELSE << v + 63 >>

RoundPoint(pt) == << Round6(pt[1]), Round6(pt[2]) >>

\* The characters of point i: the deltas of latitude, then longitude, from
\* the previous rounded point (from <<0, 0>> for the first).
EncodePoint(pts, i) ==
    LET cur == RoundPoint(pts[i])
        prev == IF i = 1 THEN <<0, 0>> ELSE RoundPoint(pts[i - 1])
    IN Chunks[ZigZag(cur[1] - prev[1])] \o Chunks[ZigZag(cur[2] - prev[2])]

RECURSIVE EncodeFrom(_, _)
EncodeFrom(pts, i) ==
    IF i > Len(pts) THEN << >> ELSE EncodePoint(pts, i) \o EncodeFrom(pts, i + 1)

\* polyline.encode(pts, precision=6)
polyline_encode(pts) == EncodeFrom(pts, 1)

\* Positions of the characters that end a group (no 0x20 flag).
GroupEnds(text) == {i \in DOMAIN text : text[i] - 63 < 32}

\* Position of the last character of the k-th group.
GroupEnd(text, k) ==
    CHOOSE i \in GroupEnds(text) :
        Cardinality({j \in GroupEnds(text) : j <= i}) = k

RECURSIVE GroupBits(_, _, _)
\* The 5-bit groups of text[a..b] put together, least significant first.
GroupBits(text, a, b) ==
    IF a > b THEN 0
    ELSE ((text[a] - 63) % 32) + 32 * GroupBits(text, a + 1, b)

\* The k-th signed delta of the text.
Delta(text, k) ==
    LET a == IF k = 1 THEN 1 ELSE GroupEnd(text, k - 1) + 1
    IN UnZigZag(GroupBits(text, a, GroupEnd(text, k)))

RECURSIVE SumDeltas(_, _, _)
\* Sum of the deltas k, k - 2, k - 4, ... (one coordinate's running value).
SumDeltas(text, k, acc) ==
    IF k < 1 THEN acc ELSE SumDeltas(text, k - 2, acc + Delta(text, k))

\* polyline.decode(text, precision): the running sums divided by
\* 10^precision, as microdegrees.
polyline_decode(text, precision) ==
    LET n == Cardinality(GroupEnds(text)) \div 2
        scale == IF precision = 6 THEN 1 ELSE 10
    IN [i \in 1..n |-> << scale * SumDeltas(text, 2 * i - 1, 0),
                          scale * SumDeltas(text, 2 * i, 0) >>]

\* A decode at the package's default precision (5).
score_decode_precision5(text) == polyline_decode(text, 5)

\* exposure.py line 15: pts = polyline.decode(encoded, precision=6)
score_decode(text) == polyline_decode(text, 6)

\* No codec call exists.
OffCodec ==
    [pc |-> "off", via |-> "none", profile |-> "none", pts |-> << >>,
     text |-> << >>, distance |-> <<0, 0>>, duration |-> <<0, 0>>,
     out |-> << >>]

VARIABLES values, subs, final_aqi, api_aqi, waqi_aqi, call, grid_calls,
          dist, sel, codec, view, par, prov

aqiVars == <<values, subs, final_aqi, api_aqi, waqi_aqi>>
scoreVars == <<call, grid_calls>>
extVars == <<codec, view, par, prov>>
vars == <<values, subs, final_aqi, api_aqi, waqi_aqi, call, grid_calls,
          dist, sel, codec, view, par, prov>>

\* Upper bound of the highest band of each pollutant, in grid units.
Top(p) ==
    CASE p = "pm25" -> 25040
      [] p = "pm10" -> 4240
      [] p = "o3"   -> 2000
      [] p = "no2"  -> 12490
      [] p = "co"   -> 3040
      [] p = "so2"  -> 6040

\* How far below zero and above the highest band the input grid extends.
Under == 50
Over == 60

Grid(p) == (0 - Under) .. (Top(p) + Over)

NoReading == [p \in PollutantSet |-> None]

\* Readings with exactly one pollutant measured, over the whole grid.
SingleReadings ==
    { [NoReading EXCEPT ![p] = c] : <<p, c>> \in
        UNION { {q} \X Grid(q) : q \in PollutantSet } }

\* Readings with several pollutants measured, absent ones being None.
MixedReadings ==
    [ pm25 : {None, 0, 2000}, pm10 : {None, 1000}, o3 : {None, 600, 1000},
      no2 : {None, 300}, co : {None, 500}, so2 : {None, 7000} ]

\* No score_polyline invocation exists.
ScoreIdle ==
    /\ call = OffCall
    /\ grid_calls = << >>

\* No distance has been asked for.
DistIdle == dist = OffDist

\* No route request exists.
SelIdle == sel = OffSel

\* No codec call exists.
CodecIdle == codec = OffCodec

\* The view scores nothing.
ViewIdle == view = OffView

\* No concurrent invocations exist.
ParIdle == par = OffPar

\* No provider exists.
ProvIdle == prov = OffProv

ExtIdle == CodecIdle /\ ViewIdle /\ ParIdle /\ ProvIdle

AqiInit ==
    /\ values \in SingleReadings \cup MixedReadings
    /\ subs = NoReading
    /\ final_aqi = None
    /\ api_aqi = None
    /\ waqi_aqi = None
    /\ ScoreIdle
    /\ DistIdle
    /\ SelIdle
    /\ ExtIdle

\* backend/adapters/air/openaq_grid_provider.py: _aqi_from_pollutants(values)
AqiFromPollutants ==
    /\ final_aqi = None
    /\ subs' = [p \in PollutantSet |->
                  IF values[p] # None THEN SubIndex(p, values[p]) ELSE None]
    /\ final_aqi' = aqi_from_pollutants(values)
    /\ UNCHANGED <<values, api_aqi, waqi_aqi, scoreVars, dist, sel, extVars>>

\* backend-api/src/adapters/air/openaq_grid_provider.py: _aqi_from_pollutants
ApiAqiFromPollutants ==
    /\ api_aqi = None
    /\ api_aqi' = api_aqi_from_pollutants(values)
    /\ UNCHANGED <<values, subs, final_aqi, waqi_aqi, scoreVars, dist, sel, extVars>>

\* backend/adapters/air/waqi_forecast_provider.py: _aqi_from_pm25(avg_pm25)
WaqiAqiFromPm25 ==
    /\ waqi_aqi = None
    /\ values["pm25"] # None
    /\ waqi_aqi' = waqi_aqi_from_pm25(values["pm25"])
    /\ UNCHANGED <<values, subs, final_aqi, api_aqi, scoreVars, dist, sel, extVars>>

AqiNext == AqiFromPollutants \/ ApiAqiFromPollutants \/ WaqiAqiFromPm25

SpecAqi == AqiInit /\ [][AqiNext]_vars

(***************************************************************************)
(* ExposureService.score_polyline, one action per step of the handler:     *)
(* entry (decode, speed lookup), one loop iteration per segment (with its  *)
(* get_aqi_cell call), return.                                             *)
(***************************************************************************)
\* Longest route geometry, in points.
MaxPts == 3

PointSet == {<<0, 0>>, <<0, 10000>>, <<10000, 0>>, <<10000, 10000>>}

\* Every geometry of up to MaxPts points of PointSet, and three through the
\* point opposite to <<0, 0>> on the equator, whose segments the helper
\* measures as 0 m.
Routes ==
    UNION { [1..n -> PointSet] : n \in 0..MaxPts } \cup
    { << <<0, 0>>, <<0, 180000000>> >>,
      << <<0, 180000000>>, <<0, 0>> >>,
      << <<0, 0>>, <<0, 0>>, <<0, 180000000>> >> }

\* The mode of a request: MODE_SPEED_KMH's keys and one that is not a key.
RequestModes == Modes \cup {"car"}

\* What one get_aqi_cell call can do: raise, or return a reading whose "aqi"
\* is absent, null, or a number (in tenths).
GridOutcomes ==
    { [kind |-> "raise", aqi |-> 0], [kind |-> "absent", aqi |-> 0],
      [kind |-> "null", aqi |-> 0], [kind |-> "num", aqi |-> 800],
      [kind |-> "num", aqi |-> 1205] }

AqiIdle ==
    /\ values = NoReading
    /\ subs = NoReading
    /\ final_aqi = None
    /\ api_aqi = None
    /\ waqi_aqi = None

ScoreInit ==
    /\ \E pts \in Routes, mode \in RequestModes : call = NewCall(pts, mode)
    /\ grid_calls = << >>
    /\ AqiIdle
    /\ DistIdle
    /\ SelIdle
    /\ ExtIdle

\* An entry that looks the speed up only when there is a segment to score.
ScoreEnter_lazy_lookup ==
    /\ call.pc = "called"
    /\ call' = IF call.mode \in Modes \/ Len(call.pts) < 2
               THEN [call EXCEPT !.pc = "loop"]
               ELSE [call EXCEPT !.pc = "raised", !.error = "KeyError"]
    /\ UNCHANGED <<grid_calls, aqiVars, dist, sel, extVars>>

\* Lines 15-17: decode, speed = MODE_SPEED_KMH[mode]*1000/3600 (KeyError for
\* a mode that is no key), exposure=0.0; max_aqi=0; segs=[].
ScoreEnter ==
    /\ call.pc = "called"
    /\ call' = IF call.mode \in Modes
               THEN [call EXCEPT !.pc = "loop"]
               ELSE [call EXCEPT !.pc = "raised", !.error = "KeyError"]
    /\ UNCHANGED <<grid_calls, aqiVars, dist, sel, extVars>>

\* Lines 18-28: one iteration of the loop over zip(pts[:-1], pts[1:]).
ScoreSegment ==
    /\ call.pc = "loop"
    /\ call.i < Len(call.pts) - 1
    /\ \E env \in GridOutcomes :
        LET ptA == call.pts[call.i + 1]
            ptB == call.pts[call.i + 2]
            segDist == exposure_haversine_m(ptA[1], ptA[2], ptB[1], ptB[2])
            segDur == DurS(segDist, call.mode)
            segAqi == EnvAqi(env)
            segExp == SegExp(segAqi, segDur, call.mode)
            seg == [from |-> <<ptA[2], ptA[1]>>, to |-> <<ptB[2], ptB[1]>>,
                    len_m |-> FxInt(segDist), dur_s |-> FxInt(segDur),
                    aqi |-> segAqi, exposure |-> FxRound1(segExp)]
        IN
        \* latc, lonc in half microdegrees
        /\ grid_calls' = Append(grid_calls,
                [latc |-> ptA[1] + ptB[1], lonc |-> ptA[2] + ptB[2],
                 kind |-> env.kind, aqi |-> env.aqi])
        /\ call' = IF env.kind = "raise"
                   THEN [call EXCEPT !.pc = "raised", !.error = "GridError"]
                   ELSE [call EXCEPT
                           !.i = call.i + 1,
                           !.max_aqi = IF segAqi > call.max_aqi
                                       THEN segAqi ELSE call.max_aqi,
                           !.exposure = FxAdd(call.exposure, segExp),
                           !.segs = Append(call.segs, seg)]
    /\ UNCHANGED <<aqiVars, dist, sel, extVars>>

\* A return that reports no max_aqi for a route without segments.
ScoreReturn_no_max ==
    /\ call.pc = "loop"
    /\ call.i >= Len(call.pts) - 1
    /\ call' = [call EXCEPT !.pc = "returned",
                            !.result = << FxRound1(call.exposure),
                                          IF call.segs = << >> THEN None
                                          ELSE call.max_aqi,
                                          call.segs >>]
    /\ UNCHANGED <<grid_calls, aqiVars, dist, sel, extVars>>

\* Line 29: return round(exposure,1), max_aqi, segs
ScoreReturn ==
    /\ call.pc = "loop"
    /\ call.i >= Len(call.pts) - 1
    /\ call' = [call EXCEPT !.pc = "returned",
                            !.result = << FxRound1(call.exposure),
                                          call.max_aqi, call.segs >>]
    /\ UNCHANGED <<grid_calls, aqiVars, dist, sel, extVars>>

ScoreNext == ScoreEnter \/ ScoreSegment \/ ScoreReturn

SpecScore == ScoreInit /\ [][ScoreNext]_vars


(***************************************************************************)
(* The two _haversine_m helpers, applied to a pair of points in either     *)
(* argument order.                                                         *)
(***************************************************************************)
\* Coordinates of the points, in microdegrees.
Coords == {0, 5000, 10000}

DistPoints == Coords \X Coords

Orders == {"ab", "ba"}

\* The arguments <<lat1, lon1, lat2, lon2>> of a call in order o.
Args(o) ==
    IF o = "ab" THEN <<dist.a[1], dist.a[2], dist.b[1], dist.b[2]>>
    ELSE <<dist.b[1], dist.b[2], dist.a[1], dist.a[2]>>

DistInit ==
    /\ \E a \in DistPoints, b \in DistPoints : dist = DistOf(a, b)
    /\ AqiIdle
    /\ ScoreIdle
    /\ SelIdle
    /\ ExtIdle

\* DummyRouterClient._haversine_m(lat1, lon1, lat2, lon2)
RouterHaversine ==
    \E o \in Orders :
        /\ dist.router[o] = NoDist
        /\ dist' = [dist EXCEPT !.router[o] =
                      router_haversine_m(Args(o)[1], Args(o)[2],
                                         Args(o)[3], Args(o)[4])]
        /\ UNCHANGED <<aqiVars, scoreVars, sel, extVars>>

\* ExposureService._haversine_m(lat1, lon1, lat2, lon2)
ExposureHaversine ==
    \E o \in Orders :
        /\ dist.exposure[o] = NoDist
        /\ dist' = [dist EXCEPT !.exposure[o] =
                      exposure_haversine_m(Args(o)[1], Args(o)[2],
                                           Args(o)[3], Args(o)[4])]
        /\ UNCHANGED <<aqiVars, scoreVars, sel, extVars>>

DistNext == RouterHaversine \/ ExposureHaversine

SpecDist == DistInit /\ [][DistNext]_vars

(***************************************************************************)
(* Route selection: OptimalRouteView.get (normalisation and minimum score) *)
(* and ComputeRouteUseCase.handle (threshold penalty, first route), over   *)
(* the routes of one request.  A score                                     *)
(*   alpha*num_dist/(span_dist + 1e-9) + beta*num_exp/(span_exp + 1e-9)    *)
(* is kept as its numerators and spans; two scores are compared exactly.   *)
(***************************************************************************)
\* Most routes the router returns for a request.
MaxCands == 3

\* r["distance"] in metres
DistanceSet == {1000, 2000}
\* exposure_index in tenths
ExposureSet == {1000, 2000}
MaxAqiSet == {80, 120}

ScoredRoutes ==
    [distance : DistanceSet, exposure_index : ExposureSet, max_aqi : MaxAqiSet]

RouteLists == UNION { [1..n -> ScoredRoutes] : n \in 0..MaxCands }

RouterKinds == {"osrm", "list"}

\* <<alpha, beta>> in tenths
WeightSet == { <<5, 5>>, <<10, 0>>, <<3, 7>> }

\* aqi_threshold: not supplied, 0 (falsy), or a limit
ThresholdSet == {None, 0, 100}

\* A minimum that takes the largest element.
MinOf_largest(S) == CHOOSE x \in S : \A y \in S : y <= x

MinOf(S) == CHOOSE x \in S : \A y \in S : x <= y
MaxOf(S) == CHOOSE x \in S : \A y \in S : y <= x

SelInit ==
    /\ \E k \in RouterKinds, routes \in RouteLists, w \in WeightSet,
          t \in ThresholdSet :
          sel = Request(k, routes, w[1], w[2], t)
    /\ AqiIdle
    /\ ScoreIdle
    /\ DistIdle
    /\ ExtIdle

\* A denominator without the guard.
Denominator_unguarded(span) == <<span, 0>>

\* span + 1e-9 as <<units, billionths>>
Denominator(span) == <<span, 1>>

\* views.py lines 111-141: the routes from OSRMClient (which raises
\* RuntimeError("No se encontraron rutas ...") when the service has none,
\* NoRoutesError here), the evaluations, min/max of distance and of
\* exposure_index, and each evaluation's score (a division by zero raises).
ViewEvaluate ==
    /\ sel.view_pc = "start"
    /\ IF sel.routes = << >>
       THEN sel' = [sel EXCEPT !.view_pc = "raised",
                               !.view_error = "NoRoutesError"]
       ELSE
       LET ix == DOMAIN sel.routes
           ds == { sel.routes[i].distance : i \in ix }
           es == { sel.routes[i].exposure_index : i \in ix }
           min_dist == MinOf(ds)
           max_dist == MaxOf(ds)
           min_exp == MinOf(es)
           max_exp == MaxOf(es)
       IN IF \/ Denominator(max_dist - min_dist) = <<0, 0>>
             \/ Denominator(max_exp - min_exp) = <<0, 0>>
          THEN sel' = [sel EXCEPT !.view_pc = "raised",
                                  !.view_error = "ZeroDivisionError"]
          ELSE sel' = [sel EXCEPT
                    !.view_pc = "scored",
                    !.span_dist = max_dist - min_dist,
                    !.span_exp = max_exp - min_exp,
                    !.evaluations = [i \in ix |->
                        [polyline |-> i,
                         distance |-> sel.routes[i].distance,
                         exposure_index |-> sel.routes[i].exposure_index,
                         num_dist |-> sel.routes[i].distance - min_dist,
                         num_exp |-> sel.routes[i].exposure_index - min_exp]]]
    /\ UNCHANGED <<aqiVars, scoreVars, dist, extVars>>

\* x["score"] < y["score"] for two evaluations: the difference of the scores
\* times 100*(span_dist + 1e-9)*(span_exp + 1e-9) is X + 1e-9 * Y (alpha, beta
\* and the exposures being in tenths), and X, Y are integers with |Y| < 1e9.
ScoreLess(x, y) ==
    LET dd == sel.alpha * (x.num_dist - y.num_dist)
        de == sel.beta * (x.num_exp - y.num_exp)
        X == dd * sel.span_exp + de * sel.span_dist
        Y == 10 * dd + de
    IN X < 0 \/ (X = 0 /\ Y < 0)

\* A minimum that keeps the last of the evaluations no other is less than.
PyMin_last(evs) ==
    evs[CHOOSE i \in DOMAIN evs :
            /\ \A j \in DOMAIN evs : ~ScoreLess(evs[j], evs[i])
            /\ \A j \in (i + 1)..Len(evs) : ScoreLess(evs[i], evs[j])]

\* min(evaluations, key=lambda x: x["score"]): the first of the evaluations
\* no other is less than.
PyMin(evs) ==
    evs[CHOOSE i \in DOMAIN evs :
            /\ \A j \in DOMAIN evs : ~ScoreLess(evs[j], evs[i])
            /\ \A j \in 1..(i - 1) : ScoreLess(evs[i], evs[j])]

\* views.py line 144
ViewSelect ==
    /\ sel.view_pc = "scored"
    /\ sel' = [sel EXCEPT !.view_pc = "responded",
                          !.optimal = << PyMin(sel.evaluations) >>]
    /\ UNCHANGED <<aqiVars, scoreVars, dist, extVars>>

\* use_cases.py lines 8-27; distance_km in hundredths.  With no route,
\* OSRMClient.route raises and any other client's empty list makes scored[0]
\* raise.
UseCaseHandle ==
    /\ sel.handle_pc = "start"
    /\ LET penal(r) == sel.aqi_threshold # None /\ sel.aqi_threshold # 0
                           /\ r.max_aqi > sel.aqi_threshold
           scored == [i \in DOMAIN sel.routes |->
                        [polyline |-> i,
                         distance_km |-> PyRound(sel.routes[i].distance),
                         exposure_index |->
                             IF penal(sel.routes[i])
                             THEN sel.routes[i].exposure_index * 10
                             ELSE sel.routes[i].exposure_index,
                         max_aqi_on_path |-> sel.routes[i].max_aqi]]
       IN IF sel.routes = << >>
          THEN sel' = [sel EXCEPT
                         !.handle_pc = "raised",
                         !.handle_error = IF sel.router = "osrm"
                                          THEN "NoRoutesError"
                                          ELSE "IndexError"]
          ELSE sel' = [sel EXCEPT !.handle_pc = "returned",
                                  !.scored = scored,
                                  !.best = << scored[1] >>]
    /\ UNCHANGED <<aqiVars, scoreVars, dist, extVars>>

SelNext == ViewEvaluate \/ ViewSelect \/ UseCaseHandle

SpecSelect == SelInit /\ [][SelNext]_vars

(***************************************************************************)
(* The polyline on its way from the router client to the exposure service: *)
(* DummyRouterClient.route encodes its two endpoints, score_polyline       *)
(* decodes the geometry it is given.                                       *)
(***************************************************************************)
\* Coordinates in 1/10 microdegree: around zero with sixth-decimal halves,
\* and a Mexico City position.
LatSet == {0, 5, -15, 194326087}
LonSet == {4, -991332083}
CodecPoints == LatSet \X LonSet
CodecRoutes == UNION { [1..n -> CodecPoints] : n \in 0..MaxPts }

\* Endpoints route() is called with, as (lon, lat) in 1/10 microdegree, at
\* whole microdegrees.
RouteCoords == {<<10 * pt[2], 10 * pt[1]>> : pt \in PointSet}
Profiles == {"foot", "bike"}

CodecInit ==
    /\ \/ \E pts \in CodecRoutes :
             codec = [OffCodec EXCEPT !.pc = "start", !.via = "encode",
                                      !.pts = pts]
       \/ \E a \in RouteCoords, b \in RouteCoords, profile \in Profiles :
             codec = [OffCodec EXCEPT !.pc = "start", !.via = "route",
                                      !.profile = profile, !.pts = <<a, b>>]
    /\ AqiIdle
    /\ ScoreIdle
    /\ DistIdle
    /\ SelIdle
    /\ ViewIdle
    /\ ParIdle
    /\ ProvIdle

\* polyline.encode(pts, precision=6) on a list of (lat, lon)
PolylineEncode ==
    /\ codec.pc = "start"
    /\ codec.via = "encode"
    /\ codec' = [codec EXCEPT !.pc = "encoded",
                              !.text = polyline_encode(codec.pts)]
    /\ UNCHANGED <<aqiVars, scoreVars, dist, sel, view, par, prov>>

\* DummyRouterClient.route(coords, profile): distance, duration and the
\* geometry of [(lat1, lon1), (lat2, lon2)].
RouterRoute ==
    /\ codec.pc = "start"
    /\ codec.via = "route"
    /\ LET lon1 == codec.pts[1][1]  lat1 == codec.pts[1][2]
           lon2 == codec.pts[2][1]  lat2 == codec.pts[2][2]
           d == router_haversine_m(lat1 \div 10, lon1 \div 10,
                                   lat2 \div 10, lon2 \div 10)
       IN codec' = [codec EXCEPT
                      !.pc = "encoded",
                      !.distance = d,
                      !.duration = DurS(d, IF codec.profile = "foot"
                                           THEN "walk" ELSE "bike"),
                      !.text = polyline_encode(<< <<lat1, lon1>>,
                                                  <<lat2, lon2>> >>)]
    /\ UNCHANGED <<aqiVars, scoreVars, dist, sel, view, par, prov>>

\* score_polyline line 15 on the geometry it receives.
ScoreDecode ==
    /\ codec.pc = "encoded"
    /\ codec' = [codec EXCEPT !.pc = "decoded",
                              !.out = score_decode(codec.text)]
    /\ UNCHANGED <<aqiVars, scoreVars, dist, sel, view, par, prov>>

CodecNext == PolylineEncode \/ RouterRoute \/ ScoreDecode

SpecCodec == CodecInit /\ [][CodecNext]_vars

(***************************************************************************)
(* OptimalRouteView.get, lines 120-130: the loop that scores the candidate *)
(* routes one after the other.  Each score_polyline invocation runs as in  *)
(* SpecScore; view.queries lists the get_aqi_cell calls of the request in  *)
(* the order they are made, view.results what each invocation returned.    *)
(* The distance and duration of a route are copied to its evaluation       *)
(* unchanged and are left to the selection machine.                        *)
(***************************************************************************)
\* Most candidate routes of one request.
MaxViewRoutes == 2

\* Geometries: one point, one segment, two segments of which the second has
\* length zero.
ViewGeometries ==
    { << <<0, 0>> >>,
      << <<0, 0>>, <<0, 10000>> >>,
      << <<0, 10000>>, <<10000, 10000>>, <<10000, 10000>> >> }

ViewRouteLists == UNION { [1..n -> ViewGeometries] : n \in 1..MaxViewRoutes }

ViewModes == {"walk", "bike", "car"}

\* depart_at = datetime.now(timezone.utc), as a number of hours.
DepartSet == {10, 11}

\* What get_aqi_cell does: raise, or return a reading whose "aqi" is null or
\* a number in tenths (a negative composite comes from a negative
\* concentration).
ViewOutcomes ==
    { [kind |-> "raise", aqi |-> 0], [kind |-> "null", aqi |-> 0],
      [kind |-> "num", aqi |-> 800], [kind |-> "num", aqi |-> -40] }

ViewInit ==
    /\ \E routes \in ViewRouteLists, mode \in ViewModes, t \in DepartSet :
          view = [OffView EXCEPT !.pc = "next", !.routes = routes,
                                 !.mode = mode, !.depart_at = t]
    /\ AqiIdle
    /\ ScoreIdle
    /\ DistIdle
    /\ SelIdle
    /\ CodecIdle
    /\ ParIdle
    /\ ProvIdle

\* Line 122, the call, and score_polyline lines 15-17 for the next route.
ViewScoreEnter ==
    /\ view.pc = "next"
    /\ view' = IF view.mode \in Modes
               THEN [view EXCEPT !.pc = "loop",
                                 !.frame = NewFrame(view.routes[view.r + 1],
                                                    view.mode)]
               ELSE [view EXCEPT !.pc = "raised", !.error = "KeyError"]
    /\ UNCHANGED <<aqiVars, scoreVars, dist, sel, codec, par, prov>>

\* score_polyline lines 18-28: one iteration, with its get_aqi_cell call.
ViewScoreSegment ==
    /\ view.pc = "loop"
    /\ view.frame.i < Len(view.frame.pts) - 1
    /\ \E env \in ViewOutcomes :
          LET f == view.frame
              mid == Midpoint(f.pts[f.i + 1], f.pts[f.i + 2])
              query == [route |-> view.r + 1, seg |-> f.i + 1,
                        latc |-> mid[1], lonc |-> mid[2],
                        depart_at |-> view.depart_at,
                        kind |-> env.kind, aqi |-> env.aqi]
          IN view' = IF env.kind = "raise"
                     THEN [view EXCEPT !.pc = "raised", !.error = "GridError",
                                       !.queries = Append(@, query)]
                     ELSE [view EXCEPT !.frame = FrameStep(f, env),
                                       !.queries = Append(@, query)]
    /\ UNCHANGED <<aqiVars, scoreVars, dist, sel, codec, par, prov>>

\* sum(s["aqi"] for s in segs) / len(segs) if segs else 0, as <<sum, count>>
AvgAqi(segs) ==
    LET S[i \in 0..Len(segs)] == IF i = 0 THEN 0 ELSE S[i - 1] + segs[i].aqi
    IN IF segs # << >> THEN << S[Len(segs)], Len(segs) >> ELSE << 0, 1 >>

\* score_polyline line 29 and the view's lines 122-130: the invocation
\* returns, avg_aqi is computed and the evaluation appended.
ViewScoreReturn ==
    /\ view.pc = "loop"
    /\ view.frame.i >= Len(view.frame.pts) - 1
    /\ LET res == FrameResult(view.frame)
           e == [polyline |-> view.r + 1, exposure_index |-> res[1],
                 avg_aqi |-> AvgAqi(res[3])]
       IN view' = [view EXCEPT
                     !.pc = IF view.r + 1 = Len(view.routes)
                            THEN "scored" ELSE "next",
                     !.r = view.r + 1,
                     !.results = Append(@, res),
                     !.evaluations = Append(@, e)]
    /\ UNCHANGED <<aqiVars, scoreVars, dist, sel, codec, par, prov>>

ViewNext == ViewScoreEnter \/ ViewScoreSegment \/ ViewScoreReturn

SpecView == ViewInit /\ [][ViewNext]_vars

(***************************************************************************)
(* Concurrent score_polyline invocations on one ExposureService (threads   *)
(* of a worker pool).  The service object holds self.grid only; pts,       *)
(* speed, exposure, max_aqi and segs are locals of each invocation.  A     *)
(* thread can be preempted anywhere; the model lets the invocations        *)
(* interleave between the get_aqi_cell read and the accumulation that      *)
(* follows it.  par.grid is what the provider answers per midpoint.        *)
(***************************************************************************)
\* Number of concurrent invocations.
ParCalls == 2

ParGeometries ==
    { << <<0, 0>>, <<0, 10000>> >>,
      << <<0, 0>>, <<0, 10000>>, <<10000, 10000>> >> }

\* Midpoints of the segments of the geometries.
ParCells ==
    { Midpoint(g[i], g[i + 1]) : <<g, i>> \in
        { x \in ParGeometries \X (1..2) : x[2] < Len(x[1]) } }

ParOutcomes ==
    { [kind |-> "null", aqi |-> 0], [kind |-> "num", aqi |-> 800],
      [kind |-> "num", aqi |-> 1205] }

ParModes == {"walk", "bike"}

ParInit ==
    /\ \E grid \in [ParCells -> ParOutcomes],
          geoms \in [1..ParCalls -> ParGeometries],
          modes \in [1..ParCalls -> ParModes] :
          par = [grid |-> grid,
                 calls |-> [t \in 1..ParCalls |->
                              [pc |-> "called",
                               frame |-> NewFrame(geoms[t], modes[t]),
                               env |-> << >>, result |-> << >>]]]
    /\ AqiIdle
    /\ ScoreIdle
    /\ DistIdle
    /\ SelIdle
    /\ CodecIdle
    /\ ViewIdle
    /\ ProvIdle

\* Lines 15-17 of invocation t.
ParEnter(t) ==
    /\ par.calls[t].pc = "called"
    /\ par' = [par EXCEPT !.calls[t].pc = "loop"]

\* Lines 19-22 of invocation t: the read of the segment's cell.
ParQuery(t) ==
    LET f == par.calls[t].frame IN
    /\ par.calls[t].pc = "loop"
    /\ f.i < Len(f.pts) - 1
    /\ par' = [par EXCEPT
                 !.calls[t].pc = "read",
                 !.calls[t].env =
                     par.grid[Midpoint(f.pts[f.i + 1], f.pts[f.i + 2])]]

\* An accumulation whose running maximum is a field of the service.
ParAccumulate_shared_max(t) ==
    LET shared == FrameStep([par.calls[t].frame EXCEPT !.max_aqi =
                     SeqMax([u \in 1..Len(par.calls) |->
                               par.calls[u].frame.max_aqi])],
                            par.calls[t].env) IN
    /\ par.calls[t].pc = "read"
    /\ par' = [par EXCEPT
                 !.calls[t].pc = "loop",
                 !.calls[t].frame = shared,
                 !.calls = [u \in DOMAIN @ |->
                              [@[u] EXCEPT !.frame.max_aqi = shared.max_aqi]]]

\* Lines 23-28 of invocation t.
ParAccumulate(t) ==
    /\ par.calls[t].pc = "read"
    /\ par' = [par EXCEPT
                 !.calls[t].pc = "loop",
                 !.calls[t].frame = FrameStep(@, par.calls[t].env)]

\* Line 29 of invocation t.
ParReturn(t) ==
    LET f == par.calls[t].frame IN
    /\ par.calls[t].pc = "loop"
    /\ f.i >= Len(f.pts) - 1
    /\ par' = [par EXCEPT !.calls[t].pc = "returned",
                          !.calls[t].result = FrameResult(f)]

ParNext ==
    /\ \E t \in DOMAIN par.calls :
          ParEnter(t) \/ ParQuery(t) \/ ParAccumulate(t) \/ ParReturn(t)
    /\ UNCHANGED <<aqiVars, scoreVars, dist, sel, codec, view, prov>>

SpecPar == ParInit /\ [][ParNext]_vars

(***************************************************************************)
(* The grid provider over time: get_aqi_cell called by the request threads *)
(* of one process, which share the Django cache and take no lock.  A call  *)
(* runs from wait to wait: the cache lookup (lines 121-128), which returns *)
(* on a hit; after a miss the answer to the locations request (line 144);  *)
(* with a location found, the answer to the latest-measurements request    *)
(* (line 180).  The step of the last answer goes on to cache.set and the   *)
(* return.  Steps of other threads and of the clock come between the steps *)
(* of a call.                                                              *)
(* prov.cache is the cache (entries live until their timeout) and          *)
(* prov.calls[t] the call thread t made last.  prov.stored remembers every *)
(* payload a call stored, with the 0.005-degree cell and UTC hour of that  *)
(* call, until its TTL is over; calls[t].priors are the payloads so        *)
(* remembered for the cell and hour of the call when it began.             *)
(***************************************************************************)
\* ttl=300 in both implementations
DefaultTtl == 300

\* The clock starts one TTL before a full hour (10:00) and advances by a
\* TTL, MaxTicks times at most.
StartTime == 10 * 3600 - DefaultTtl
MaxTicks == 1

\* The request threads.
ProvThreads == {"A", "B"}

\* (lat, lon, when): two points of the cell around 0.000 and one of the next
\* cell, with None ("now") for the timestamp, and the first point with the
\* start of the hour 10:00.
ProvArgs == { <<10, 0, None>>, <<24, 0, None>>, <<26, 0, None>>,
              <<10, 0, 36000>> }

\* What the two upstream requests do: the locations request fails (connection
\* error, timeout, error status), answers with a body that is no JSON object
\* of the expected shape, finds no location, or succeeds; then the same for
\* the latest-measurements request, whose measurements may hold a string.
Upstreams ==
    { [loc |-> "error", latest |-> "none", values |-> NoReading],
      [loc |-> "malformed", latest |-> "none", values |-> NoReading],
      [loc |-> "empty", latest |-> "none", values |-> NoReading],
      [loc |-> "ok", latest |-> "error", values |-> NoReading],
      [loc |-> "ok", latest |-> "malformed", values |-> NoReading],
      [loc |-> "ok", latest |-> "ok",
       values |-> [NoReading EXCEPT !["pm25"] = 2000]],
      [loc |-> "ok", latest |-> "ok",
       values |-> [NoReading EXCEPT !["pm25"] = Text]] }

\* The upstream did not deliver a well-formed reading.
UpstreamFailed(up) ==
    \/ up.loc # "ok"
    \/ up.latest # "ok"
    \/ \E q \in PollutantSet : up.values[q] = Text

\* The 0.005-degree cell a coordinate is nearest to (its number), and the UTC
\* hour of a timestamp, as the caching policy is described.
NearestCell(c) == CHOOSE k \in 0..10 : 2 * Abs(c - 50 * k) <= 50 /\ c # 50 * k + 25
BucketOf(lat, lon, when, now) ==
    << NearestCell(lat), NearestCell(lon),
       (IF when = None THEN now ELSE when) \div 3600 >>

ProvInit ==
    /\ \E impl \in {"backend", "api"} :
          prov = [OffProv EXCEPT !.impl = impl, !.ttl = DefaultTtl,
                                 !.now = StartTime,
                                 !.calls = [t \in ProvThreads |-> NoCall]]
    /\ AqiIdle
    /\ ScoreIdle
    /\ DistIdle
    /\ SelIdle
    /\ CodecIdle
    /\ ViewIdle
    /\ ParIdle

\* Thread t calls get_aqi_cell(lat, lon, when): lines 121-128, the key and
\* the cache lookup; a cached payload is returned at once.
ProvLookup(t) ==
    /\ prov.calls[t].pc # "requesting"
    /\ \E arg \in ProvArgs :
        LET key == CacheKey(arg[1], arg[2], arg[3], prov.now)
            cached == CacheGet(prov.cache, key, prov.now)
            bucket == BucketOf(arg[1], arg[2], arg[3], prov.now)
            began == [NoCall EXCEPT
                        !.key = key, !.bucket = bucket,
                        !.priors = {e.payload : e \in
                                      {d \in prov.stored : d.bucket = bucket}}]
        IN
        IF cached # NoPayload
        THEN prov' = [prov EXCEPT !.calls[t] =
                         [began EXCEPT !.pc = "returned", !.hit = TRUE,
                                       !.key = << >>, !.bucket = << >>,
                                       !.payload = cached]]
        ELSE prov' = [prov EXCEPT !.calls[t] =
                         [began EXCEPT !.pc = "requesting"]]

\* Thread t from the answer to its last upstream request, up being what the
\* upstream did, to the return: the values the try block ends with, the
\* composite index (which may raise), the payload and cache.set.
ProvFinish(t, up) ==
    LET extracted == ExtractedValues(up)
        made == [prov.calls[t] EXCEPT !.failed = UpstreamFailed(up),
                                      !.requests = @ + 1]
    IN
    IF CompositeRaises(prov.impl, extracted)
    THEN prov' = [prov EXCEPT !.calls[t] =
                     [made EXCEPT !.pc = "raised", !.key = << >>,
                                  !.bucket = << >>]]
    ELSE LET payload == Payload(prov.impl, extracted) IN
         prov' = [prov EXCEPT
            !.cache = CacheSet(@, made.key, payload, prov.now, prov.ttl),
            !.stored = @ \cup {[bucket |-> made.bucket,
                                payload |-> payload,
                                until |-> prov.now + prov.ttl]},
            !.calls[t] = [made EXCEPT !.pc = "returned",
                                      !.key = << >>, !.bucket = << >>,
                                      !.payload = payload]]

\* Thread t, after a miss: the locations request (line 144) is answered.  With
\* a location found the call goes on to wait for the latest-measurements
\* request; otherwise it runs to its end.
ProvLocations(t) ==
    /\ prov.calls[t].pc = "requesting"
    /\ prov.calls[t].requests = 0
    /\ \E ans \in {u.loc : u \in Upstreams} :
        IF ans = "ok"
        THEN prov' = [prov EXCEPT !.calls[t].requests = 1]
        ELSE ProvFinish(t, CHOOSE u \in Upstreams : u.loc = ans)

\* Thread t: the latest-measurements request (line 180) is answered and the
\* call runs to its end.
ProvLatest(t) ==
    /\ prov.calls[t].pc = "requesting"
    /\ prov.calls[t].requests = 1
    /\ \E up \in {u \in Upstreams : u.loc = "ok"} : ProvFinish(t, up)

\* Time passes; entries whose timeout is over are gone.
ProvTick ==
    /\ prov.now < StartTime + MaxTicks * prov.ttl
    /\ LET t == prov.now + prov.ttl IN
       prov' = [prov EXCEPT
                  !.now = t,
                  !.cache = {e \in @ : e.expires > t},
                  !.stored = {e \in @ : e.until > t}]

ProvNext ==
    /\ \/ \E t \in ProvThreads : ProvLookup(t)
       \/ \E t \in ProvThreads : ProvLocations(t)
       \/ \E t \in ProvThreads : ProvLatest(t)
       \/ ProvTick
    /\ UNCHANGED <<aqiVars, scoreVars, dist, sel, codec, view, par>>

SpecProv == ProvInit /\ [][ProvNext]_vars

(***************************************************************************)
(* Breakpoint tables, as sequences of bands <<cl, cu, il, iu>> in grid     *)
(* units, and the interpolation the specification states over a table.     *)
(***************************************************************************)
\* The tables as section 4.1 lists them: concentration_lower is the previous
\* band's upper bound.
SpecBands(p) ==
    CASE p = "pm25" -> << <<0, 1200, 0, 50>>, <<1200, 3540, 50, 100>>,
                          <<3540, 5540, 100, 150>>, <<5540, 15040, 150, 200>>,
                          <<15040, 25040, 200, 300>> >>
      [] p = "pm10" -> << <<0, 540, 0, 50>>, <<540, 1540, 50, 100>>,
                          <<1540, 2540, 100, 150>>, <<2540, 3540, 150, 200>>,
                          <<3540, 4240, 200, 300>> >>
      [] p = "o3"   -> << <<0, 540, 0, 50>>, <<540, 700, 51, 100>>,
                          <<700, 850, 101, 150>>, <<850, 1050, 151, 200>>,
                          <<1050, 2000, 201, 300>> >>
      [] p = "no2"  -> << <<0, 530, 0, 50>>, <<530, 1000, 51, 100>>,
                          <<1000, 3600, 101, 150>>, <<3600, 6490, 151, 200>>,
                          <<6490, 12490, 201, 300>> >>
      [] p = "co"   -> << <<0, 440, 0, 50>>, <<440, 940, 51, 100>>,
                          <<940, 1240, 101, 150>>, <<1240, 1540, 151, 200>>,
                          <<1540, 3040, 201, 300>> >>
      [] p = "so2"  -> << <<0, 350, 0, 50>>, <<350, 750, 51, 100>>,
                          <<750, 1850, 101, 150>>, <<1850, 3040, 151, 200>>,
                          <<3040, 6040, 201, 300>> >>

\* The amended tables: from the second band on, concentration_lower is the
\* previous upper bound plus one reporting step (0.1 ug/m3 for PM2.5, 1 ug/m3
\* for PM10, 0.001 ppm for O3, 0.1 ppm for CO, 1 ppb for NO2 and SO2), and
\* every pollutant but PM2.5 has the index ranges 51-100, 101-150, 151-200,
\* 201-300.
AmendedBands(p) ==
    CASE p = "pm25" -> << <<0, 1200, 0, 50>>, <<1210, 3540, 50, 100>>,
                          <<3550, 5540, 100, 150>>, <<5550, 15040, 150, 200>>,
                          <<15050, 25040, 200, 300>> >>
      [] p = "pm10" -> << <<0, 540, 0, 50>>, <<550, 1540, 51, 100>>,
                          <<1550, 2540, 101, 150>>, <<2550, 3540, 151, 200>>,
                          <<3550, 4240, 201, 300>> >>
      [] p = "o3"   -> << <<0, 540, 0, 50>>, <<550, 700, 51, 100>>,
                          <<710, 850, 101, 150>>, <<860, 1050, 151, 200>>,
                          <<1060, 2000, 201, 300>> >>
      [] p = "no2"  -> << <<0, 530, 0, 50>>, <<540, 1000, 51, 100>>,
                          <<1010, 3600, 101, 150>>, <<3610, 6490, 151, 200>>,
                          <<6500, 12490, 201, 300>> >>
      [] p = "co"   -> << <<0, 440, 0, 50>>, <<450, 940, 51, 100>>,
                          <<950, 1240, 101, 150>>, <<1250, 1540, 151, 200>>,
                          <<1550, 3040, 201, 300>> >>
      [] p = "so2"  -> << <<0, 350, 0, 50>>, <<360, 750, 51, 100>>,
                          <<760, 1850, 101, 150>>, <<1860, 3040, 151, 200>>,
                          <<3050, 6040, 201, 300>> >>

\* Index of the first band whose upper bound is >= c (c within the bands).
FirstBand(bands, c) ==
    CHOOSE i \in 1..Len(bands) :
        /\ c <= bands[i][2]
        /\ \A j \in 1..(i - 1) : c > bands[j][2]

\* index_lower + (c - cl) * (index_upper - index_lower) / (cu - cl), as an
\* exact quotient cut to an integer toward zero (= floor where it is >= 0).
Interp(bands, c) ==
    LET b == bands[FirstBand(bands, c)] IN
    PyInt(b[3] * (b[2] - b[1]) + (c - b[1]) * (b[4] - b[3]), b[2] - b[1])

InBands(p, c) == c # None /\ 0 <= c /\ c <= Top(p)

GasAndPm10 == {"pm10", "o3", "co", "no2", "so2"}

\* C1 as stated: inside the bands every copy of the PM2.5 sub-index function
\* returns the interpolation over the table [0,12], (12,35.4], (35.4,55.4],
\* (55.4,150.4], (150.4,250.4] with concentration_lower the band's lower bound.
C1_Original ==
    InBands("pm25", values["pm25"]) =>
        LET x == Interp(SpecBands("pm25"), values["pm25"]) IN
        /\ subs["pm25"] # None => subs["pm25"] = x
        /\ (api_aqi # None) => api_aqi = x
        /\ (waqi_aqi # None) => waqi_aqi = x

\* C1 amended: inside the bands every copy of the PM2.5 sub-index function
\* returns the interpolation with concentration_lower 0, 12.1, 35.5, 55.5,
\* 150.5 (concentrations in a gap use the band above), cut toward zero, and
\* the three copies agree.
C1_Amended ==
    InBands("pm25", values["pm25"]) =>
        LET x == Interp(AmendedBands("pm25"), values["pm25"]) IN
        /\ subs["pm25"] # None => subs["pm25"] = x
        /\ (api_aqi # None) => api_aqi = x
        /\ (waqi_aqi # None) => waqi_aqi = x

C1_Witness ==
    /\ values["pm25"] = 2000
    /\ subs["pm25"] = 66 /\ api_aqi = 66 /\ waqi_aqi = 66

\* C2 as stated: inside the bands the PM10, O3, CO, NO2 and SO2 sub-indices
\* are the interpolation over the listed table, concentration_lower being
\* the band's stated lower bound and PM10 mapping to [50,100], [100,150], ...
C2_Original ==
    \A p \in GasAndPm10 :
        (InBands(p, values[p]) /\ subs[p] # None) =>
            subs[p] = FloatInt(p, values[p], Interp(SpecBands(p), values[p]))

\* C2 amended: inside the bands the PM10, O3, CO, NO2 and SO2 sub-indices
\* are the interpolation over the amended tables, evaluated in double
\* precision and cut toward zero.
C2_Amended ==
    \A p \in GasAndPm10 :
        (InBands(p, values[p]) /\ subs[p] # None) =>
            subs[p] = FloatInt(p, values[p], Interp(AmendedBands(p), values[p]))

C2_Witness ==
    /\ values["pm10"] = 1000 /\ subs["pm10"] = 73
    /\ values["o3"] = 600 /\ subs["o3"] = 67
    /\ values["no2"] = 300 /\ subs["no2"] = 28

\* Maximum of the sub-indices of the pollutants present in a reading.
MaxPresent(v) ==
    LET present == {p \in PollutantSet : v[p] # None}
        s == {SubIndex(p, v[p]) : p \in present} IN
    IF present = {} THEN 0 ELSE CHOOSE m \in s : \A x \in s : x <= m

\* C3: in every implementation of the grid provider the composite AQI is the
\* maximum of the sub-indices of all six pollutants present in the reading.
C3_Claim ==
    /\ (final_aqi # None) => final_aqi = MaxPresent(values)
    /\ (api_aqi # None) => api_aqi = MaxPresent(values)

\* C4: a concentration strictly above the highest band yields 301 exactly,
\* and no concentration at or below that bound yields 301.
C4_Saturation ==
    /\ \A p \in PollutantSet :
          subs[p] # None => (subs[p] = 301 <=> values[p] > Top(p))
    /\ (api_aqi # None /\ values["pm25"] # None) =>
          (api_aqi = 301 <=> values["pm25"] > Top("pm25"))
    /\ (waqi_aqi # None) => (waqi_aqi = 301 <=> values["pm25"] > Top("pm25"))

C4_Witness ==
    /\ values["so2"] = Top("so2") + 1 /\ subs["so2"] = 301 /\ final_aqi = 301

\* C5: every sub-index and every composite AQI is an integer in [0, 301].
C5_Range ==
    /\ \A p \in PollutantSet : subs[p] # None => subs[p] \in 0..301
    /\ (final_aqi # None) => final_aqi \in 0..301
    /\ (api_aqi # None) => api_aqi \in 0..301
    /\ (waqi_aqi # None) => waqi_aqi \in 0..301

(***************************************************************************)
(* score_polyline: failing reads, additivity, the worked example.          *)
(***************************************************************************)
\* C6 as stated: a get_aqi_cell call that raises does not abort
\* score_polyline; the segment it was made for is scored with aqi = 0 (the
\* j-th call is the one for the j-th segment).
C6_Claim ==
    \A j \in DOMAIN grid_calls :
        grid_calls[j].kind = "raise" =>
            /\ call.pc # "raised"
            /\ Len(call.segs) >= j
            /\ call.segs[j].aqi = 0

\* A number of one decimal, in tenths.
Tenths(x) == x[1] * 10 + (x[2] \div 100000)

\* Sum of the exposure values of the segment list, in tenths.
ReportedSum(segs) ==
    LET S[i \in 0..Len(segs)] ==
            IF i = 0 THEN 0 ELSE S[i - 1] + Tenths(segs[i].exposure)
    IN S[Len(segs)]

\* seg_exp of segment i of the invocation, not rounded, from the points, the
\* mode and what the i-th get_aqi_cell call returned.
UnroundedSegExp(i) ==
    LET ptA == call.pts[i]
        ptB == call.pts[i + 1]
    IN SegExp(EnvAqi(grid_calls[i]),
              DurS(exposure_haversine_m(ptA[1], ptA[2], ptB[1], ptB[2]),
                   call.mode),
              call.mode)

\* Sum of the unrounded seg_exp of the first n segments.
UnroundedSum(n) ==
    LET W[i \in 0..n] == IF i = 0 THEN 0 ELSE W[i - 1] + UnroundedSegExp(i)[1]
        F[i \in 0..n] == IF i = 0 THEN 0 ELSE F[i - 1] + UnroundedSegExp(i)[2]
    IN << W[n] + (F[n] \div Micro), F[n] % Micro >>

\* C7 as stated: the exposure_index score_polyline returns equals the sum of
\* the exposure values of the segments it returns.
C7_Original ==
    call.pc = "returned" =>
        Tenths(call.result[1]) = ReportedSum(call.result[3])

\* C7 amended: the exposure_index returned is the sum of the unrounded
\* segment exposures rounded once to one decimal; the segment list reports
\* each segment's exposure rounded to one decimal, so the total differs from
\* the sum of the reported values by at most 0.05 * (segments + 1), and not at
\* all for a route of at most one segment.
C7_Amended ==
    call.pc = "returned" =>
        LET n == Len(call.result[3])
            drift == Tenths(call.result[1]) - ReportedSum(call.result[3])
        IN /\ call.result[1] = FxRound1(UnroundedSum(n))
           /\ 2 * Abs(drift) <= n + 1
           /\ n <= 1 => drift = 0

\* A returned route of two or more segments whose exposure_index is not the
\* sum of the reported segment values.
C7_Witness ==
    /\ call.pc = "returned"
    /\ Len(call.result[3]) >= 2
    /\ Tenths(call.result[1]) # ReportedSum(call.result[3])

\* C8 as stated: the route (0,0) -> (0,0.01), mode walk, every get_aqi_cell
\* returning aqi = 80, scores as one segment of about 1110 m and 832.5 s
\* (within 1%) with exposure about 1110.0, exposure_index equal to that
\* segment's exposure and max_aqi = 80.
C8_Claim ==
    ( /\ call.pc = "returned"
      /\ call.pts = << <<0, 0>>, <<0, 10000>> >>
      /\ call.mode = "walk"
      /\ \A j \in DOMAIN grid_calls :
            grid_calls[j].kind = "num" /\ grid_calls[j].aqi = 800 )
    => LET segs == call.result[3] IN
       /\ Len(segs) = 1
       /\ segs[1].len_m \in 1099..1122
       /\ segs[1].dur_s \in 824..841
       /\ segs[1].aqi = 80
       /\ segs[1].exposure[1] \in 1099..1122
       /\ call.result[1] = segs[1].exposure
       /\ call.result[2] = 80

(***************************************************************************)
(* The distance helpers.                                                   *)
(***************************************************************************)
\* C9 as stated: each helper is symmetric, gives 0 for a point and itself,
\* and the two helpers compute the same distance.
C9_Claim ==
    /\ \A h \in {"router", "exposure"} :
          /\ (dist[h].ab # NoDist /\ dist[h].ba # NoDist)
                => dist[h].ab = dist[h].ba
          /\ (dist[h].ab # NoDist /\ dist.a = dist.b)
                => dist[h].ab = <<0, 0>>
    /\ (dist.router.ab # NoDist /\ dist.exposure.ab # NoDist)
          => dist.router.ab = dist.exposure.ab

(***************************************************************************)
(* The selector.                                                           *)
(***************************************************************************)
\* score of candidate i < score of candidate j, for candidates with
\* distances ds and exposures es (in tenths), score = alpha*norm_d +
\* beta*norm_e with
\* norm_d = (d - min_d)/(max_d - min_d + 1e-9) and
\* norm_e = (e - min_e)/(max_e - min_e + 1e-9).
ClaimLess(ds, es, i, j, alpha, beta) ==
    LET D == { ds[k] : k \in DOMAIN ds }
        E == { es[k] : k \in DOMAIN es }
        span_d == MaxOf(D) - MinOf(D)
        span_e == MaxOf(E) - MinOf(E)
        X == alpha * (ds[i] - ds[j]) * span_e + beta * (es[i] - es[j]) * span_d
        Y == 10 * alpha * (ds[i] - ds[j]) + beta * (es[i] - es[j])
    IN X < 0 \/ (X = 0 /\ Y < 0)

\* What OptimalRouteView.get selected has a minimal score.
ViewMinimal ==
    sel.view_pc = "responded" =>
        LET evs == sel.evaluations
            ds == [k \in DOMAIN evs |-> evs[k].distance]
            es == [k \in DOMAIN evs |-> evs[k].exposure_index]
        IN \E i \in DOMAIN evs :
              /\ evs[i] = sel.optimal[1]
              /\ \A j \in DOMAIN evs :
                    ~ClaimLess(ds, es, j, i, sel.alpha, sel.beta)

\* What ComputeRouteUseCase.handle returned has a minimal score.
HandleMinimal ==
    sel.handle_pc = "returned" =>
        LET ds == [k \in DOMAIN sel.scored |-> sel.routes[k].distance]
            es == [k \in DOMAIN sel.scored |-> sel.scored[k].exposure_index]
        IN \E i \in DOMAIN sel.scored :
              /\ sel.scored[i] = sel.best[1]
              /\ \A j \in DOMAIN sel.scored :
                    ~ClaimLess(ds, es, j, i, sel.alpha, sel.beta)

\* C10 as stated: the route either selector returns has a score no other
\* candidate of the request is strictly below.
C10_Claim == ViewMinimal /\ HandleMinimal

\* The distances and the exposures of the routes of the request, in the
\* router's order.
RouteDistances == [k \in DOMAIN sel.routes |-> sel.routes[k].distance]
RouteExposures == [k \in DOMAIN sel.routes |-> sel.routes[k].exposure_index]

\* Candidate i of the request has a minimal score.
IsMinimal(i) ==
    \A j \in DOMAIN sel.routes :
        ~ClaimLess(RouteDistances, RouteExposures, j, i, sel.alpha, sel.beta)

\* C11: the view returns the first, in the router's order, of the candidates
\* that share the minimal score; the selection is this function of the
\* candidate list, alpha and beta.
C11_FirstOnTies ==
    sel.view_pc = "responded" =>
        LET first == CHOOSE i \in DOMAIN sel.routes :
                        IsMinimal(i) /\ \A j \in 1..(i - 1) : ~IsMinimal(j)
        IN sel.optimal[1].polyline = first

\* A response for a request where a later candidate shares the minimal score
\* with the selected one.
C11_Witness ==
    /\ sel.view_pc = "responded"
    /\ \E j \in DOMAIN sel.routes :
          /\ j > sel.optimal[1].polyline
          /\ IsMinimal(j)
          /\ sel.routes[j] # sel.routes[sel.optimal[1].polyline]

\* C12: every evaluation's normalized distance num_dist/(span_dist + 1e-9)
\* and normalized exposure num_exp/(span_exp + 1e-9) lie in [0, 1], i.e. the
\* numerators lie between 0 and the spans.
C12_Normalized ==
    sel.view_pc \in {"scored", "responded"} =>
        \A i \in DOMAIN sel.evaluations :
            /\ 0 <= sel.evaluations[i].num_dist
            /\ sel.evaluations[i].num_dist <= sel.span_dist
            /\ 0 <= sel.evaluations[i].num_exp
            /\ sel.evaluations[i].num_exp <= sel.span_exp

\* Evaluations of several candidates, one at the top of the distance range
\* and one at the bottom of the exposure range.
C12_Witness ==
    /\ sel.view_pc = "scored"
    /\ Len(sel.evaluations) >= 2
    /\ \E i \in DOMAIN sel.evaluations :
          sel.evaluations[i].num_dist = sel.span_dist /\ sel.span_dist > 0
    /\ \E i \in DOMAIN sel.evaluations :
          sel.evaluations[i].num_exp = 0 /\ sel.span_exp > 0

\* C13: the normalisation never raises a division by zero; when all
\* candidates have the same distance (the same exposure_index) every
\* normalized distance (exposure) is 0, also for a single candidate; when both
\* are the same the first candidate is selected.
C13_Guarded ==
    /\ sel.view_error # "ZeroDivisionError"
    /\ sel.view_pc \in {"scored", "responded"} =>
        LET ix == DOMAIN sel.routes
            same_d == \A i \in ix, j \in ix :
                         sel.routes[i].distance = sel.routes[j].distance
            same_e == \A i \in ix, j \in ix :
                         sel.routes[i].exposure_index
                             = sel.routes[j].exposure_index
        IN /\ same_d => \A i \in ix : sel.evaluations[i].num_dist = 0
           /\ same_e => \A i \in ix : sel.evaluations[i].num_exp = 0
           /\ (same_d /\ same_e /\ sel.view_pc = "responded")
                 => sel.optimal[1].polyline = 1

\* Three candidates of the same distance and exposure, the first selected.
C13_Witness ==
    /\ sel.view_pc = "responded"
    /\ Len(sel.routes) = 3
    /\ \A i \in DOMAIN sel.routes :
          /\ sel.routes[i].distance = sel.routes[1].distance
          /\ sel.routes[i].exposure_index = sel.routes[1].exposure_index
          /\ sel.evaluations[i].num_dist = 0
          /\ sel.evaluations[i].num_exp = 0
    /\ sel.optimal[1].polyline = 1

\* C14 as stated: whenever an aqi_threshold is supplied (0..500) and a
\* candidate's max_aqi is greater, handle multiplies its exposure_index by
\* 10; otherwise the exposure_index is what score_polyline returned.
C14_Claim ==
    sel.handle_pc = "returned" =>
        \A i \in DOMAIN sel.routes :
            sel.scored[i].exposure_index =
                IF sel.aqi_threshold # None
                     /\ sel.routes[i].max_aqi > sel.aqi_threshold
                THEN 10 * sel.routes[i].exposure_index
                ELSE sel.routes[i].exposure_index

\* C15 as stated: with aqi_threshold 100 (and a positive beta) a candidate
\* with max_aqi 120 is scored with ten times its exposure, so its score is
\* strictly above that of a candidate of the same distance and raw exposure
\* below the threshold, and it is not the one returned.
C15_Claim ==
    (sel.handle_pc = "returned" /\ sel.aqi_threshold = 100 /\ sel.beta > 0) =>
        \A i \in DOMAIN sel.routes, j \in DOMAIN sel.routes :
            ( /\ sel.routes[i].max_aqi = 120
              /\ sel.routes[j].max_aqi <= 100
              /\ sel.routes[i].distance = sel.routes[j].distance
              /\ sel.routes[i].exposure_index = sel.routes[j].exposure_index )
            => /\ sel.scored[i].exposure_index
                     = 10 * sel.routes[i].exposure_index
               /\ ClaimLess(RouteDistances,
                            [k \in DOMAIN sel.scored |->
                                sel.scored[k].exposure_index],
                            j, i, sel.alpha, sel.beta)
               /\ sel.best[1].polyline # i

\* C16 as stated: with zero routes, the view and the use case both end in
\* the no-routes failure, with nothing evaluated, scored or selected.
C16_Claim ==
    sel.routes = << >> =>
        /\ sel.view_pc \in {"start", "raised"}
        /\ sel.view_pc = "raised" => sel.view_error = "NoRoutesError"
        /\ sel.handle_pc \in {"start", "raised"}
        /\ sel.handle_pc = "raised" => sel.handle_error = "NoRoutesError"
        /\ sel.evaluations = << >> /\ sel.optimal = << >>
        /\ sel.scored = << >> /\ sel.best = << >>
        /\ grid_calls = << >>

\* C17: score_polyline with a mode that is no key of MODE_SPEED_KMH raises
\* KeyError for every geometry, before any segment is scored: nothing is
\* returned and get_aqi_cell is not called.
C17_UnsupportedMode ==
    (call.pc # "off" /\ call.mode \notin {"walk", "run", "bike"}) =>
        /\ call.pc \in {"called", "raised"}
        /\ call.pc = "raised" => call.error = "KeyError"
        /\ call.result = << >>
        /\ call.segs = << >>
        /\ call.exposure = <<0, 0>>
        /\ grid_calls = << >>

\* A one-point geometry scored in an unsupported mode has raised.
C17_Witness ==
    /\ call.pc = "raised"
    /\ call.error = "KeyError"
    /\ Len(call.pts) = 1
    /\ call.mode = "car"

\* C18: a geometry of fewer than two points, in a supported mode, scores as
\* exposure_index 0, max_aqi 0 and no segments, without a get_aqi_cell call
\* and without an error.
C18_ShortRoute ==
    (Len(call.pts) < 2 /\ call.mode \in Modes) =>
        /\ call.pc # "raised"
        /\ grid_calls = << >>
        /\ call.pc = "returned" => call.result = << <<0, 0>>, 0, << >> >>

\* A one-point geometry has been scored.
C18_Witness ==
    /\ call.pc = "returned"
    /\ Len(call.pts) = 1
    /\ call.result = << <<0, 0>>, 0, << >> >>

\* C19: for every segment scored, the reported duration is the whole seconds
\* of max(1.0, length / speed) with speed = MODE_SPEED_KMH[mode]/3.6 m/s, it
\* is at least 1, and the reported exposure is computed from that duration.
C19_MinDuration ==
    \A i \in DOMAIN call.segs :
        LET ptA == call.pts[i]
            ptB == call.pts[i + 1]
            len == exposure_haversine_m(ptA[1], ptA[2], ptB[1], ptB[2])
            raw == FxMulDiv(len, 36, MODE_SPEED_KMH[call.mode])
            used == IF raw[1] < 1 THEN <<1, 0>> ELSE raw
        IN /\ call.segs[i].dur_s = used[1]
           /\ call.segs[i].dur_s >= 1
           /\ call.segs[i].exposure =
                 FxRound1(SegExp(call.segs[i].aqi, used, call.mode))

\* A route scored with a segment between two identical consecutive points
\* and a segment of length 0, whose duration is the floor of one second.
C19_Witness ==
    /\ call.pc = "returned"
    /\ \E i \in DOMAIN call.segs :
          /\ call.segs[i].from = call.segs[i].to
          /\ call.segs[i].dur_s >= 1
    /\ \E i \in DOMAIN call.segs :
          /\ call.segs[i].len_m = 0
          /\ call.segs[i].dur_s = 1
          /\ call.segs[i].aqi > 0
          /\ call.segs[i].exposure # <<0, 0>>

\* C20: the backend composite AQI of a reading with no pollutant is 0; a
\* pollutant that is absent or null contributes no sub-index, so the composite
\* of a reading with pollutants is the sub-index of one that is present; and
\* the composite of a reading with only pm25 = 0 is 0.
C20_EmptyAndMissing ==
    (final_aqi # None) =>
        LET present == {p \in PollutantSet : values[p] # None} IN
        /\ \A p \in PollutantSet \ present : subs[p] = None
        /\ present = {} => final_aqi = 0
        /\ present # {} =>
              /\ final_aqi \in {subs[p] : p \in present}
              /\ \A p \in present : subs[p] <= final_aqi
        /\ (present = {"pm25"} /\ values["pm25"] = 0) => final_aqi = 0

\* The composite of the empty reading has been computed.
C20_Witness ==
    /\ values = NoReading
    /\ final_aqi = 0

(***************************************************************************)
(* Sub-index functions: monotonicity and continuity at the band bounds.    *)
(***************************************************************************)
\* Lowest grid concentration of band k (the band is chosen by upper bound).
BandLowest(p, k) == IF k = 1 THEN 0 ELSE AmendedBands(p)[k - 1][2] + 1

\* C21: within a band the sub-index does not decrease with concentration:
\* the sub-index of the reading's concentration is at least the sub-index of
\* the grid concentration just below it and of the lowest one of the same
\* band (over all readings this chains to every pair c1 <= c2 of a band).
C21_BandMonotone ==
    \A p \in PollutantSet :
        (subs[p] # None /\ InBands(p, values[p])) =>
            LET c2 == values[p]
                k == FirstBand(AmendedBands(p), c2)
            IN \A c1 \in {c2 - 1, BandLowest(p, k)} :
                   (BandLowest(p, k) <= c1 /\ c1 <= c2) =>
                       /\ FirstBand(AmendedBands(p), c1) = k
                       /\ SubIndex(p, c1) <= subs[p]

\* A CO reading where the double-precision result is one below the exact
\* quotient, and its lower neighbour has the same sub-index.
C21_Witness ==
    /\ values["co"] = 460
    /\ subs["co"] = 51
    /\ SubIndex("co", 459) = 51

\* The formula of band k of the amended table (the constants of the code)
\* at concentration c, cut toward zero.
BandFormula(p, k, c) ==
    LET b == AmendedBands(p)[k] IN
    PyInt(b[3] * (b[2] - b[1]) + (c - b[1]) * (b[4] - b[3]), b[2] - b[1])

\* C22: at the upper bound of a band that has a successor, the sub-index (the
\* band's own formula) differs by at most 1 from the value the next band's
\* formula gives at that band's lower bound, the bound the tables state for
\* it (0.054 ppm for the O3 band (0.054, 0.070]).
C22_Claim ==
    \A p \in PollutantSet : \A k \in 1..4 :
        (subs[p] # None /\ values[p] = AmendedBands(p)[k][2]) =>
            LET lower == SpecBands(p)[k + 1][1] IN
            Abs(BandFormula(p, k + 1, lower) - subs[p]) <= 1

\* C28: over the whole non-negative domain, across band bounds and into
\* saturation, no sub-index function decreases when the concentration grows
\* by one grid step.
C28_Claim ==
    /\ \A p \in PollutantSet :
          (subs[p] # None /\ values[p] >= 1) =>
              SubIndex(p, values[p] - 1) <= subs[p]
    /\ (api_aqi # None /\ values["pm25"] # None /\ values["pm25"] >= 1) =>
          api_aqi_from_pm25(values["pm25"] - 1) <= api_aqi
    /\ (waqi_aqi # None /\ values["pm25"] >= 1) =>
          waqi_aqi_from_pm25(values["pm25"] - 1) <= waqi_aqi

(***************************************************************************)
(* The polyline round trip.                                                *)
(***************************************************************************)
\* The points handed to polyline.encode, as (lat, lon).
Encoded ==
    IF codec.via = "route"
    THEN [i \in DOMAIN codec.pts |-> << codec.pts[i][2], codec.pts[i][1] >>]
    ELSE codec.pts

\* C23: decode(encode(pts)) at precision 6 has the length and order of pts
\* and every coordinate within 1e-6 degree of the input; the route of the
\* dummy router decodes to its two endpoints.
C23_RoundTrip ==
    codec.pc = "decoded" =>
        /\ Len(codec.out) = Len(Encoded)
        /\ \A i \in DOMAIN Encoded : \A k \in 1..2 :
               Abs(10 * codec.out[i][k] - Encoded[i][k]) <= 10
        /\ codec.via = "route" =>
               /\ Len(codec.out) = 2
               /\ \A i \in 1..2 : \A k \in 1..2 :
                      10 * codec.out[i][k] = Encoded[i][k]

\* Three points with a negative longitude and a sixth-decimal half have made
\* the round trip.
C23_Witness ==
    /\ codec.pc = "decoded"
    /\ codec.pts = << <<194326087, -991332083>>, <<5, 4>>, <<-15, 4>> >>
    /\ codec.out = << <<19432609, -99133208>>, <<1, 0>>, <<-2, 0>> >>

(***************************************************************************)
(* score_polyline: the aqi of a segment, the running maximum, the queries. *)
(***************************************************************************)
\* Sum of the unrounded seg_exp of the first n segments whose reading has a
\* numeric "aqi".
NumericSum(n) ==
    LET Part(i) == IF grid_calls[i].kind = "num" THEN UnroundedSegExp(i)
                   ELSE <<0, 0>>
        W[i \in 0..n] == IF i = 0 THEN 0 ELSE W[i - 1] + Part(i)[1]
        F[i \in 0..n] == IF i = 0 THEN 0 ELSE F[i - 1] + Part(i)[2]
    IN << W[n] + (F[n] \div Micro), F[n] % Micro >>

\* C26: the aqi of a segment is the reading's "aqi" rounded to the nearest
\* integer, and 0 when the field is absent or null; such a segment is scored
\* (the loop goes on), reports exposure 0 and adds nothing to the running
\* exposure.
C26_SegmentAqi ==
    /\ \A j \in DOMAIN grid_calls :
          grid_calls[j].kind # "raise" => j \in DOMAIN call.segs
    /\ \A j \in DOMAIN call.segs :
          /\ grid_calls[j].kind = "num" =>
                2 * Abs(10 * call.segs[j].aqi - grid_calls[j].aqi) <= 10
          /\ grid_calls[j].kind \in {"absent", "null"} =>
                /\ call.segs[j].aqi = 0
                /\ call.segs[j].exposure = <<0, 0>>
    /\ call.exposure = NumericSum(Len(call.segs))

\* A returned route whose first reading had a null "aqi" and whose second
\* had 120.5.
C26_Witness ==
    /\ call.pc = "returned"
    /\ Len(call.segs) = 2
    /\ grid_calls[1].kind = "null" /\ call.segs[1].aqi = 0
    /\ grid_calls[2].aqi = 1205 /\ call.segs[2].aqi = 120
    /\ call.exposure # <<0, 0>>

\* The queries made for route k of the request, in the order they were made.
QueriesOf(k) == SelectSeq(view.queries, LAMBDA q : q.route = k)

\* C25: get_aqi_cell is called once per segment of a scored route, in path
\* order, for the segment's midpoint and the request's depart_at; the segment
\* list returned has one entry per call in the same order; and the calls of
\* one route are all made before the first call of the next.
C25_OneQueryPerSegment ==
    /\ \A a \in DOMAIN view.queries :
          LET q == view.queries[a]
              pts == view.routes[q.route]
          IN /\ q.seg \in 1..(Len(pts) - 1)
             /\ <<q.latc, q.lonc>> =
                   << pts[q.seg][1] + pts[q.seg + 1][1],
                      pts[q.seg][2] + pts[q.seg + 1][2] >>
             /\ q.depart_at = view.depart_at
             /\ q.route <= Len(view.results) + 1
             /\ \A b \in DOMAIN view.queries :
                   a < b => \/ q.route < view.queries[b].route
                            \/ /\ q.route = view.queries[b].route
                               /\ q.seg < view.queries[b].seg
    /\ \A k \in DOMAIN view.results :
          LET pts == view.routes[k]
              segs == view.results[k][3]
              n == IF Len(pts) >= 1 THEN Len(pts) - 1 ELSE 0
          IN /\ Len(QueriesOf(k)) = n
             /\ Len(segs) = n
             /\ \A j \in 1..n :
                   /\ QueriesOf(k)[j].seg = j
                   /\ segs[j].from = << pts[j][2], pts[j][1] >>
                   /\ segs[j].to = << pts[j + 1][2], pts[j + 1][1] >>
                   /\ segs[j].aqi = EnvAqi(QueriesOf(k)[j])

\* Two routes of one and two segments have been scored with three calls.
C25_Witness ==
    /\ view.pc = "scored"
    /\ Len(view.results) = 2
    /\ Len(view.queries) = 3
    /\ view.queries[1].route = 1
    /\ view.queries[2].route = 2 /\ view.queries[2].seg = 1
    /\ view.queries[3].route = 2 /\ view.queries[3].seg = 2
    /\ <<view.queries[3].latc, view.queries[3].lonc>> = <<20000, 20000>>

\* C27: the max_aqi an invocation returns is at least the aqi of every
\* segment of the list it returns, is the aqi of one of them when the list is
\* not empty, and the avg_aqi the view computes for the route is at most it.
C27_Claim ==
    \A k \in DOMAIN view.results :
        LET max_aqi == view.results[k][2]
            segs == view.results[k][3]
            avg == view.evaluations[k].avg_aqi
        IN /\ \A j \in DOMAIN segs : segs[j].aqi <= max_aqi
           /\ segs # << >> => \E j \in DOMAIN segs : segs[j].aqi = max_aqi
           /\ avg[1] <= max_aqi * avg[2]

(***************************************************************************)
(* Concurrent invocations.                                                 *)
(***************************************************************************)
RECURSIVE RunAlone(_, _, _)
\* The frame of an invocation run on its own against the readings grid,
\* after n iterations of its loop.
RunAlone(f, grid, n) ==
    IF f.i >= n THEN f
    ELSE RunAlone(FrameStep(f, grid[Midpoint(f.pts[f.i + 1], f.pts[f.i + 2])]),
                  grid, n)

\* C24: under every interleaving, the locals of an invocation (running sum,
\* running maximum, segment list) are at each moment those it has after the
\* same number of iterations when run alone against the same readings, and
\* what it returns is what it returns alone.
C24_Isolated ==
    \A t \in DOMAIN par.calls :
        LET c == par.calls[t]
            start == NewFrame(c.frame.pts, c.frame.mode)
        IN /\ c.frame = RunAlone(start, par.grid, c.frame.i)
           /\ c.pc = "returned" =>
                 c.result = FrameResult(RunAlone(start, par.grid,
                                                 Len(c.frame.pts) - 1))

\* Two invocations on different routes, both between a read and its
\* accumulation, the first with a running maximum the second does not have.
C24_Witness ==
    /\ Len(par.calls) >= 2
    /\ par.calls[1].pc = "read" /\ par.calls[2].pc = "read"
    /\ par.calls[1].frame.pts # par.calls[2].frame.pts
    /\ par.calls[1].frame.i = 1
    /\ par.calls[2].frame.i = 0
    /\ par.calls[1].frame.max_aqi = 120
    /\ par.calls[2].frame.max_aqi = 0

(***************************************************************************)
(* The grid provider: cache and upstream failures.                         *)
(***************************************************************************)
\* The calls that have come to their end.
ProvEnded == {t \in ProvThreads : prov.calls[t].pc \in {"returned", "raised"}}

\* C29: a call that begins after a call for the same cell and UTC hour has
\* stored and returned a payload, the TTL of which is not over, returns that
\* same payload and makes no upstream request; and a call answered from the
\* cache returns a payload stored for its own cell and hour.
C29_Claim ==
    \A t \in ProvEnded :
        /\ \A earlier \in prov.calls[t].priors :
              /\ prov.calls[t].pc = "returned"
              /\ prov.calls[t].hit
              /\ prov.calls[t].requests = 0
              /\ prov.calls[t].payload = earlier
        /\ prov.calls[t].hit => prov.calls[t].payload \in prov.calls[t].priors

\* C30: a call whose upstream requests fail, answer with malformed data or
\* find no location does not raise and returns aqi = 0 with every pollutant
\* field null.
C30_Claim ==
    \A t \in ProvEnded :
        (~prov.calls[t].hit /\ prov.calls[t].failed) =>
            /\ prov.calls[t].pc = "returned"
            /\ prov.calls[t].payload.aqi = 0
            /\ \A q \in PollutantSet \cap DOMAIN prov.calls[t].payload :
                  prov.calls[t].payload[q] = None

====
